---- MODULE Spec2Model ----
(***************************************************************************)
(* AssemblySim: discrete-event simulation of a manufacturing line.         *)
(*                                                                         *)
(* The module models                                                       *)
(*   - the event timeline (model/time.rs),                                 *)
(*   - the staff / machine registry (model/staff.rs, model/machine.rs),    *)
(*   - the production simulator (model/staff_scheduling.rs),               *)
(*   - the job dispatcher and the simulation driver (main.rs).             *)
(*                                                                         *)
(* The specifications share the variables:                                 *)
(*   Spec      the driver: seeding, ticks, handling of each event;         *)
(*   FairSpec  the driver with ticks that keep coming;                     *)
(*   SpecZero  the driver on configurations with steps of duration 0;      *)
(*   SpecSim   direct calls of the Simulator (timeline) API;               *)
(*   SpecRun   schedule_batch and Simulator::run_all;                      *)
(*   SpecProd  direct calls of the ProductionSimulator API, as the unit    *)
(*             tests and run_examples make them;                           *)
(*   SpecStaff direct calls of the Staff API.                              *)
(***************************************************************************)
EXTENDS Integers, Sequences, FiniteSets, Bags, TLC

VARIABLES
    cfg,            \* the loaded configuration (LoadedSim), fixed during a run
    machines,       \* ProductionSimulator.machines : machine id -> MachineState
    staff,          \* ProductionSimulator.staff    : Seq of Staff, registration order
    event_queue,    \* Simulator.event_queue        : bag of Event
    current_time,   \* Simulator.current_time
    job_queues,     \* App.job_queues    : bucket id -> Seq of PendingJob
    next_pid,       \* App.next_pid
    process_meta,   \* App.process_meta  : process id -> <<step_index, item_id>>
    finished_goods, \* App.finished_goods
    playing,        \* App.playing
    pc,             \* position of the driver: "seed", "idle", "drain"; "api" for direct calls
    target_time,    \* step_simulation's local target_time while a tick runs
    auto,           \* TRUE when the running tick was started by run_app's timer
    ticks,          \* history: number of ticks completed
    log,            \* history: the dispatch attempts made by the last action
    started,        \* history: item id -> Seq of the process starts of that item
    finished_log,   \* history: item ids in the order finished_goods counted them
    requeued,       \* history: the jobs try_start_jobs has put back after a failed
                    \*          start, each with the machine it was tried on
    complete_at,    \* history: the clock at the end of the first tick at which
                    \*          sim_complete held, NotYet before
    calls,          \* history: number of direct API calls made
    last            \* history: the last direct API call, its arguments and result

vars == << cfg, machines, staff, event_queue, current_time, job_queues, next_pid,
           process_meta, finished_goods, playing, pc, target_time, auto, ticks,
           log, started, finished_log, requeued, complete_at, calls, last >>

----------------------------------------------------------------------------
(* Bounds of the model *)

MaxItems == 3      \* item counts 0..MaxItems
MaxTime  == 120    \* no tick starts once the clock has reached MaxTime
MaxCalls == 3      \* direct API calls made in a run of SpecProd
MaxEvents == 3     \* events pending at once in a run of SpecSim
MaxEventTime == 3  \* event times 0..MaxEventTime in a run of SpecSim

(* Program constants *)

StepBound == 10    \* main.rs: target_time = current + 10
NoMachine == -1    \* Option::None of Staff.current_machine
NoId      == -1    \* identifier not carried by an event kind
NotYet    == NoId  \* complete_at while sim_complete has not held at the end of a tick

----------------------------------------------------------------------------
(* model/staff.rs *)

\* mutant: every role is unrestricted
RoleUnrestricted(role, machine_id) == TRUE

\* Role::can_work_on
RoleCanWorkOn(role, machine_id) ==
    IF Len(role.machine_ids) = 0
    THEN TRUE
    ELSE \E i \in 1..Len(role.machine_ids) : role.machine_ids[i] = machine_id

\* Staff::can_work_on
StaffCanWorkOn(s, machine_id) == RoleCanWorkOn(s.role, machine_id)

\* u32::saturating_sub
SaturatingSub(a, b) == IF a >= b THEN a - b ELSE 0

\* Staff::new
NewStaff(id, role) ==
    [ id |-> id, role |-> role, is_available |-> TRUE, current_machine |-> NoMachine,
      available_at |-> 0, idle_time |-> 0, last_status_change |-> 0 ]

\* Staff::assign_to_machine, the value returned
AssignReturns(s, machine_id) == s.is_available /\ StaffCanWorkOn(s, machine_id)

\* mutant: the role is not asked
AssignIgnoringRole(s, machine_id, duration, now) ==
    IF s.is_available
    THEN [ s EXCEPT !.idle_time = @ + SaturatingSub(now, s.last_status_change),
                    !.is_available = FALSE,
                    !.current_machine = machine_id,
                    !.available_at = now + duration,
                    !.last_status_change = now ]
    ELSE s

\* Staff::assign_to_machine, the staff member afterwards
AssignToMachine(s, machine_id, duration, now) ==
    IF s.is_available /\ StaffCanWorkOn(s, machine_id)
    THEN [ s EXCEPT !.idle_time = @ + SaturatingSub(now, s.last_status_change),
                    !.is_available = FALSE,
                    !.current_machine = machine_id,
                    !.available_at = now + duration,
                    !.last_status_change = now ]
    ELSE s

\* mutant: release_from_machine without its guard
ReleaseUnguarded(s, now) ==
    [ s EXCEPT !.is_available = TRUE,
               !.current_machine = NoMachine,
               !.last_status_change = now ]

\* mutant: the guard of release_from_machine reversed
ReleaseGuardReversed(s, now) ==
    IF now < s.available_at
    THEN [ s EXCEPT !.is_available = TRUE,
                    !.current_machine = NoMachine,
                    !.last_status_change = now ]
    ELSE s

\* mutant: the release leaves current_machine set
ReleaseKeepsMachine(s, now) ==
    IF now >= s.available_at
    THEN [ s EXCEPT !.is_available = TRUE,
                    !.last_status_change = now ]
    ELSE s

\* Staff::release_from_machine
ReleaseFromMachine(s, now) ==
    IF now >= s.available_at
    THEN [ s EXCEPT !.is_available = TRUE,
                    !.current_machine = NoMachine,
                    !.last_status_change = now ]
    ELSE s

\* mutant: the idle time is assigned, not added
AccumulateAssigns(s, now) ==
    IF s.is_available /\ now > s.last_status_change
    THEN [ s EXCEPT !.idle_time = now - s.last_status_change,
                    !.last_status_change = now ]
    ELSE s

\* mutant: last_status_change is not moved to now
AccumulateWithoutMark(s, now) ==
    IF s.is_available /\ now > s.last_status_change
    THEN [ s EXCEPT !.idle_time = @ + (now - s.last_status_change) ]
    ELSE s

\* Staff::accumulate_idle_until
AccumulateIdleUntil(s, now) ==
    IF s.is_available /\ now > s.last_status_change
    THEN [ s EXCEPT !.idle_time = @ + (now - s.last_status_change),
                    !.last_status_change = now ]
    ELSE s

\* staff.iter_mut().find(|s| s.id == staff_id): index of the first match, 0 if none
FindStaff(st, staff_id) ==
    IF \E i \in 1..Len(st) : st[i].id = staff_id
    THEN CHOOSE i \in 1..Len(st) :
            /\ st[i].id = staff_id
            /\ \A j \in 1..(i - 1) : st[j].id # staff_id
    ELSE 0

\* if let Some(staff_member) = find(..) { staff_member.release_from_machine(now) }
ReleaseById(st, staff_id, now) ==
    LET i == FindStaff(st, staff_id) IN
    IF i = 0 THEN st ELSE [ st EXCEPT ![i] = ReleaseFromMachine(st[i], now) ]

\* a for loop over a list of staff ids, releasing each
RECURSIVE ReleaseAll(_, _, _)
ReleaseAll(st, ids, now) ==
    IF ids = << >> THEN st
    ELSE ReleaseAll(ReleaseById(st, Head(ids), now), Tail(ids), now)

----------------------------------------------------------------------------
(* model/machine.rs and MachineState of model/staff_scheduling.rs *)

\* MachineType::new
NewMachine(staff_required) == [ staff_required |-> staff_required, is_automated |-> FALSE ]

\* MachineType::automated
AutomatedMachine == [ staff_required |-> 0, is_automated |-> TRUE ]

\* MachineType::needs_staff
NeedsStaff(mt) == ~mt.is_automated /\ mt.staff_required > 0

\* MachineState::new
NewMachineState(mt) ==
    [ machine |-> mt, is_operating |-> FALSE, assigned_staff |-> << >>,
      waiting_for |-> "None", idle_time |-> 0, last_status_change |-> 0 ]

\* Vec::contains on assigned_staff
Contains(seq, x) == \E i \in 1..Len(seq) : seq[i] = x

\* Vec::retain(|&id| id != x)
RECURSIVE Retain(_, _)
Retain(seq, x) ==
    IF seq = << >> THEN << >>
    ELSE IF Head(seq) # x THEN << Head(seq) >> \o Retain(Tail(seq), x)
         ELSE Retain(Tail(seq), x)

----------------------------------------------------------------------------
(* model/time.rs *)

\* Event with an EventType; fields an event kind does not carry hold NoId
PCEvent(t, machine_id, process_id) ==
    [ time |-> t, kind |-> "ProcessComplete", machine_id |-> machine_id,
      process_id |-> process_id, staff_id |-> NoId ]
SREvent(t, staff_id, machine_id) ==
    [ time |-> t, kind |-> "StaffReleased", machine_id |-> machine_id,
      process_id |-> NoId, staff_id |-> staff_id ]
SUEvent(t, machine_id, process_id) ==
    [ time |-> t, kind |-> "StaffUnavailable", machine_id |-> machine_id,
      process_id |-> process_id, staff_id |-> NoId ]
OtherEvent(t, kind, id) ==
    [ time |-> t, kind |-> kind, machine_id |-> NoId, process_id |-> id, staff_id |-> NoId ]

\* u32::cmp
U32Cmp(a, b) == IF a < b THEN "Less" ELSE IF a = b THEN "Equal" ELSE "Greater"

\* mutant: the comparison not reversed, which makes the heap a max-heap
EventCmpNotReversed(self, other) == U32Cmp(self.time, other.time)

\* impl Ord for Event: other.time.cmp(&self.time), the reversed comparison
EventCmp(self, other) == U32Cmp(other.time, self.time)

\* Simulator::schedule_event
ScheduleEvent(q, e) == q (+) SetToBag({e})

\* BinaryHeap::peek / pop: an element that is greatest in the Ord of Event.
\* The heap leaves the choice among equal elements unspecified.
HeapTops(q) ==
    { e \in BagToSet(q) : \A x \in BagToSet(q) : EventCmp(e, x) # "Less" }

\* mutant: the event stays in the queue
HeapKeep(q, e) == q

\* the queue after BinaryHeap::pop returned e
HeapRemove(q, e) == q (-) SetToBag({e})

\* Simulator::has_events
HasEvents(q) == BagToSet(q) # {}

----------------------------------------------------------------------------
(* model/staff_scheduling.rs: ProductionSimulator                          *)
(* A ProductionSimulator P is a record                                     *)
(*   [ machines, staff, simulator : [ current_time, event_queue ] ]        *)

\* mutant: the scan does not ask whether the role allows the machine
RECURSIVE CollectStaffAnyRole(_, _, _, _, _)
CollectStaffAnyRole(st, machine_id, staff_needed, staff_idx, available_staff) ==
    IF staff_idx > Len(st) THEN available_staff
    ELSE IF st[staff_idx].is_available
         THEN LET pushed == Append(available_staff, staff_idx) IN
              IF Len(pushed) >= staff_needed
              THEN pushed
              ELSE CollectStaffAnyRole(st, machine_id, staff_needed, staff_idx + 1, pushed)
         ELSE CollectStaffAnyRole(st, machine_id, staff_needed, staff_idx + 1, available_staff)

\* try_start_process, lines 96-106: the scan for available staff.  Returns
\* the indices collected; the scan stops as soon as the number collected
\* reaches staff_needed, which is tested only after a push.
RECURSIVE CollectStaff(_, _, _, _, _)
CollectStaff(st, machine_id, staff_needed, staff_idx, available_staff) ==
    IF staff_idx > Len(st) THEN available_staff
    ELSE IF st[staff_idx].is_available /\ StaffCanWorkOn(st[staff_idx], machine_id)
         THEN LET pushed == Append(available_staff, staff_idx) IN
              IF Len(pushed) >= staff_needed
              THEN pushed
              ELSE CollectStaff(st, machine_id, staff_needed, staff_idx + 1, pushed)
         ELSE CollectStaff(st, machine_id, staff_needed, staff_idx + 1, available_staff)

\* mutant: the machine is not marked operating
StartWithoutOperating(m, now) ==
    [ m EXCEPT !.idle_time = @ + SaturatingSub(now, m.last_status_change),
               !.last_status_change = now,
               !.waiting_for = "None" ]

\* try_start_process, lines 80-83 and 122-125: the machine starts operating
StartOperating(m, now) ==
    [ m EXCEPT !.idle_time = @ + SaturatingSub(now, m.last_status_change),
               !.last_status_change = now,
               !.is_operating = TRUE,
               !.waiting_for = "None" ]

\* try_start_process, lines 126-139: the loop over the collected staff
RECURSIVE AssignLoop(_, _, _, _, _)
AssignLoop(P, machine_id, duration, now, available_staff) ==
    IF available_staff = << >> THEN P
    ELSE LET staff_idx == Head(available_staff)
             staff_id  == P.staff[staff_idx].id
             P1 == [ P EXCEPT
                       !.staff[staff_idx] = AssignToMachine(@, machine_id, duration, now),
                       !.machines[machine_id].assigned_staff = Append(@, staff_id),
                       !.simulator.event_queue =
                           ScheduleEvent(@, SREvent(now + duration, staff_id, machine_id)) ]
         IN  AssignLoop(P1, machine_id, duration, now, Tail(available_staff))

\* mutant: an unknown machine is signalled like a staff shortage
UnknownMachineSignalled(P, machine_id, process_id, now) ==
    [ P |-> [ P EXCEPT !.simulator.event_queue =
                          ScheduleEvent(@, SUEvent(now, machine_id, process_id)) ],
      ret |-> FALSE ]

\* try_start_process, lines 73-76: machines.get_mut(machine_id) is None
UnknownMachine(P, machine_id, process_id, now) == [ P |-> P, ret |-> FALSE ]

\* ProductionSimulator::try_start_process; returns [ P, ret ]
TryStartProcess(P, machine_id, process_id, duration, now) ==
    IF machine_id \notin DOMAIN P.machines
    THEN UnknownMachine(P, machine_id, process_id, now)
    ELSE LET machine == P.machines[machine_id] IN
         IF machine.machine.is_automated
         THEN [ P |-> [ P EXCEPT
                          !.machines[machine_id] = StartOperating(@, now),
                          !.simulator.event_queue =
                              ScheduleEvent(@, PCEvent(now + duration, machine_id, process_id)) ],
                ret |-> TRUE ]
         ELSE LET staff_needed    == machine.machine.staff_required
                  available_staff == CollectStaff(P.staff, machine_id, staff_needed, 1, << >>)
              IN  IF Len(available_staff) < staff_needed
                  THEN [ P |-> [ P EXCEPT
                                   !.simulator.event_queue =
                                       ScheduleEvent(@, SUEvent(now, machine_id, process_id)),
                                   !.machines[machine_id].waiting_for = "Staff" ],
                         ret |-> FALSE ]
                  ELSE LET P1 == [ P EXCEPT !.machines[machine_id] = StartOperating(@, now) ]
                           P2 == AssignLoop(P1, machine_id, duration, now, available_staff)
                       IN  [ P |-> [ P2 EXCEPT
                                       !.simulator.event_queue =
                                           ScheduleEvent(@, PCEvent(now + duration, machine_id, process_id)) ],
                             ret |-> TRUE ]

\* finalize_idle_time, lines 196-218: one staff member
FinalizeStaff(s, ms, now) ==
    LET s1 == IF ~s.is_available /\ now >= s.available_at
              THEN ReleaseFromMachine(s, now) ELSE s
        s2 == IF ~s1.is_available /\ s1.current_machine # NoMachine
              THEN IF s1.current_machine \in DOMAIN ms
                   THEN LET machine == ms[s1.current_machine]
                            still_assigned == Contains(machine.assigned_staff, s1.id)
                        IN  IF ~machine.is_operating \/ ~still_assigned
                            THEN ReleaseFromMachine(s1, now) ELSE s1
                   ELSE ReleaseFromMachine(s1, now)
              ELSE s1
    IN  AccumulateIdleUntil(s2, now)

\* mutant: the staff ids stay on the machine
DrainNothing(machine) == machine

\* machine.assigned_staff.drain(..), finalize_idle_time line 224 and
\* rebalance line 434: the list is empty afterwards
DrainAssigned(machine) == [ machine EXCEPT !.assigned_staff = << >> ]

\* finalize_idle_time, lines 220-235: the loop over the machines from machine id i
RECURSIVE FinalizeMachines(_, _, _)
FinalizeMachines(P, i, now) ==
    IF i \notin DOMAIN P.machines THEN P
    ELSE LET machine == P.machines[i] IN
         IF ~machine.is_operating
         THEN LET st1 == ReleaseAll(P.staff, machine.assigned_staff, now)
                  m1  == DrainAssigned(machine)
                  m2  == IF now > m1.last_status_change
                         THEN [ m1 EXCEPT !.idle_time = @ + (now - m1.last_status_change),
                                          !.last_status_change = now ]
                         ELSE m1
              IN  FinalizeMachines([ P EXCEPT !.staff = st1, !.machines[i] = m2 ], i + 1, now)
         ELSE FinalizeMachines(P, i + 1, now)

\* ProductionSimulator::finalize_idle_time
FinalizeIdleTime(P, now) ==
    LET st1 == [ i \in 1..Len(P.staff) |-> FinalizeStaff(P.staff[i], P.machines, now) ]
    IN  FinalizeMachines([ P EXCEPT !.staff = st1 ], 0, now)

----------------------------------------------------------------------------
(* main.rs: the job dispatcher                                             *)
(* An App A is a record                                                    *)
(*   [ production, job_queues, next_pid, process_meta, finished_goods ]    *)
(* extended with the history fields log, started, finished_log and        *)
(* requeued.  The                                                          *)
(* immutable fields machine_buckets, machine_to_bucket, steps and items    *)
(* are read from cfg.  job_queues maps every bucket id to a sequence: a    *)
(* key absent from the HashMap and an empty Vec both make try_start_jobs   *)
(* return at once, and sim_complete reads both as empty.                   *)

\* PendingJob
PendingJob(duration, step_index, item_id) ==
    [ duration |-> duration, step_index |-> step_index, item_id |-> item_id ]

\* the key of max_by_key, (step_index, Reverse(item_id)): a strictly below b
KeyLess(a, b) ==
    \/ a.step_index < b.step_index
    \/ a.step_index = b.step_index /\ a.item_id > b.item_id

\* mutant: first in, first out
FirstIdx(queue) == 1

\* try_start_jobs, lines 663-668: the index max_by_key selects (the last
\* maximum when several elements have the same key)
BestIdx(queue) ==
    CHOOSE i \in 1..Len(queue) :
        \A j \in 1..Len(queue) :
            \/ j = i
            \/ KeyLess(queue[j], queue[i])
            \/ ~KeyLess(queue[i], queue[j]) /\ j < i

\* mutant: is_operating is not asked
AnyIndices(ms, machine_ids) ==
    { i \in 1..Len(machine_ids) : machine_ids[i] \in DOMAIN ms }

\* try_start_jobs, lines 671-676: the idle machines of the bucket, and the
\* first of them in the bucket's order
IdleIndices(ms, machine_ids) ==
    { i \in 1..Len(machine_ids) :
        machine_ids[i] \in DOMAIN ms /\ ~ms[machine_ids[i]].is_operating }

FirstIdle(ms, machine_ids) ==
    machine_ids[CHOOSE i \in IdleIndices(ms, machine_ids) :
                    \A j \in IdleIndices(ms, machine_ids) : i <= j]

\* Vec::remove(idx)
RemoveAt(seq, idx) == SubSeq(seq, 1, idx - 1) \o SubSeq(seq, idx + 1, Len(seq))

\* mutant: the job is not pushed back
RequeueDropped(queue, job) == queue

\* mutant: the job is pushed back twice
RequeueTwice(queue, job) == Append(Append(queue, job), job)

\* try_start_jobs, line 696: the job goes back to the end of the queue
Requeue(queue, job) == Append(queue, job)

\* mutant: the failure branch clears the mark as the success branch does
WaitForNothing(m) == [ m EXCEPT !.waiting_for = "None" ]

\* try_start_jobs, lines 692-694: the machine is marked as waiting for staff
WaitForStaff(m) == [ m EXCEPT !.waiting_for = "Staff" ]

\* history: one dispatch attempt
Attempt(A0, A1, bucket_id, now, job, machine_id, pid, ret) ==
    [ bucket_id |-> bucket_id, now |-> now, job |-> job, machine_id |-> machine_id,
      pid |-> pid, started |-> ret,
      queue_before |-> A0.job_queues[bucket_id],
      queue_after  |-> A1.job_queues[bucket_id],
      production_before |-> A0.production,
      production_after  |-> A1.production ]

\* history: the attempt is added to the log of the running try_start_jobs
\* call, a successful start to the item's list of starts, and a failed one
\* to the requeued jobs
Record(A0, A1, bucket_id, now, job, machine_id, pid, ret) ==
    [ A1 EXCEPT
        !.log[Len(A1.log)] =
            Append(@, Attempt(A0, A1, bucket_id, now, job, machine_id, pid, ret)),
        !.requeued =
            IF ret
            THEN @
            ELSE @ \cup { [ item_id |-> job.item_id, step_index |-> job.step_index,
                            machine_id |-> machine_id ] },
        !.started[job.item_id] =
            IF ret
            THEN Append(@, [ step_index |-> job.step_index, machine_id |-> machine_id,
                             duration |-> job.duration, time |-> now, pid |-> pid ])
            ELSE @ ]

\* mutant: the counter is not advanced
SamePid(pid) == pid

\* try_start_jobs, line 680: app.next_pid += 1
NextPid(pid) == pid + 1

\* try_start_jobs, lines 661-699: the while loop
RECURSIVE TryStartJobsLoop(_, _, _)
TryStartJobsLoop(A, bucket_id, now) ==
    LET queue       == A.job_queues[bucket_id]
        machine_ids == cfg.machine_buckets[bucket_id]
    IN
    IF queue = << >> THEN A
    ELSE IF IdleIndices(A.production.machines, machine_ids) = {} THEN A
    ELSE
      LET best_idx   == BestIdx(queue)
          machine_id == FirstIdle(A.production.machines, machine_ids)
          job        == queue[best_idx]
          pid        == A.next_pid
          R  == TryStartProcess(A.production, machine_id, pid, job.duration, now)
      IN
      IF R.ret
      THEN LET A1 == [ A EXCEPT
                         !.job_queues[bucket_id] = RemoveAt(queue, best_idx),
                         !.next_pid = NextPid(pid),
                         !.process_meta = (pid :> << job.step_index, job.item_id >>) @@ @,
                         !.production = [ R.P EXCEPT !.machines[machine_id].waiting_for = "None" ] ]
           IN  TryStartJobsLoop(Record(A, A1, bucket_id, now, job, machine_id, pid, TRUE),
                                bucket_id, now)
      ELSE LET A1 == [ A EXCEPT
                         !.job_queues[bucket_id] = Requeue(RemoveAt(queue, best_idx), job),
                         !.next_pid = NextPid(pid),
                         !.process_meta = (pid :> << job.step_index, job.item_id >>) @@ @,
                         !.production = [ R.P EXCEPT !.machines[machine_id] = WaitForStaff(@) ] ]
           IN  Record(A, A1, bucket_id, now, job, machine_id, pid, FALSE)

\* try_start_jobs
TryStartJobs(A, bucket_id, now) ==
    LET A0 == [ A EXCEPT !.log = Append(@, << >>) ] IN
    IF A.job_queues[bucket_id] = << >> THEN A0
    ELSE IF bucket_id \notin DOMAIN cfg.machine_buckets THEN A0
    ELSE TryStartJobsLoop(A0, bucket_id, now)

\* for bucket in machine_buckets.keys() { try_start_jobs(app, bucket, now) }
RECURSIVE TryStartAllBuckets(_, _, _)
TryStartAllBuckets(A, buckets, now) ==
    IF buckets = << >> THEN A
    ELSE TryStartAllBuckets(TryStartJobs(A, Head(buckets), now), Tail(buckets), now)

----------------------------------------------------------------------------
(* main.rs: handle_event, rebalance, sim_complete                          *)

\* mutant: the item skips a step
NextStepSkip(step_idx) == step_idx + 2

\* handle_event, line 361: the index of the step after step_idx
NextStep(step_idx) == step_idx + 1

\* handle_event, EventType::ProcessComplete
HandleProcessComplete(A, event) ==
    LET machine_id == event.machine_id
        process_id == event.process_id
        P  == A.production
        P1 == IF machine_id \in DOMAIN P.machines
              THEN [ P EXCEPT
                       !.staff = ReleaseAll(@, P.machines[machine_id].assigned_staff, event.time),
                       !.machines[machine_id].is_operating = FALSE,
                       !.machines[machine_id].assigned_staff = << >>,
                       !.machines[machine_id].waiting_for = "Next process" ]
              ELSE P
        A1 == [ A EXCEPT !.production = P1 ]
    IN
    IF process_id \in DOMAIN A.process_meta
    THEN LET step_idx  == A.process_meta[process_id][1]
             item_id   == A.process_meta[process_id][2]
             next_step == NextStep(step_idx)
             A2 == [ A1 EXCEPT !.process_meta =
                        [ p \in DOMAIN A.process_meta \ {process_id} |-> A.process_meta[p] ] ]
         IN  IF next_step + 1 <= Len(cfg.steps)
             THEN LET step   == cfg.steps[next_step + 1]
                      bucket == step.machine_id
                      A3 == [ A2 EXCEPT !.job_queues[bucket] =
                                 Append(@, PendingJob(step.duration, next_step, item_id)) ]
                  IN  TryStartJobs(A3, bucket, event.time)
             ELSE LET A3 == [ A2 EXCEPT !.finished_goods = @ + 1,
                                        !.finished_log = Append(@, item_id) ]
                  IN  TryStartAllBuckets(A3, cfg.bucket_order, event.time)
    ELSE A1

\* handle_event, EventType::StaffReleased
HandleStaffReleased(A, event) ==
    LET staff_id   == event.staff_id
        machine_id == event.machine_id
        P  == A.production
        P1 == [ P EXCEPT !.staff = ReleaseById(@, staff_id, P.simulator.current_time) ]
        P2 == IF machine_id \in DOMAIN P1.machines
              THEN LET retained == Retain(P1.machines[machine_id].assigned_staff, staff_id) IN
                   IF retained = << >>
                   THEN [ P1 EXCEPT !.machines[machine_id].assigned_staff = retained,
                                    !.machines[machine_id].is_operating = FALSE,
                                    !.machines[machine_id].waiting_for = "Next process" ]
                   ELSE [ P1 EXCEPT !.machines[machine_id].assigned_staff = retained ]
              ELSE P1
        A1 == [ A EXCEPT !.production = P2 ]
    IN  IF machine_id \in DOMAIN cfg.machine_to_bucket
        THEN TryStartJobs(A1, cfg.machine_to_bucket[machine_id], event.time)
        ELSE A1

\* mutant: the machine named by the event is marked idle
StaffUnavailableStops(A, event) ==
    IF event.machine_id \in DOMAIN A.production.machines
    THEN [ A EXCEPT !.production.machines[event.machine_id].is_operating = FALSE,
                    !.production.machines[event.machine_id].assigned_staff = << >> ]
    ELSE A

\* handle_event, EventType::StaffUnavailable: nothing is done
HandleStaffUnavailable(A, event) == A

\* handle_event
HandleEvent(A, event) ==
    CASE event.kind = "ProcessComplete"  -> HandleProcessComplete(A, event)
      [] event.kind = "StaffReleased"    -> HandleStaffReleased(A, event)
      [] event.kind = "StaffUnavailable" -> HandleStaffUnavailable(A, event)
      [] OTHER                           -> A

\* rebalance, lines 412-429: one staff member
RebalanceStaff(s, ms, now) ==
    LET s1 == IF ~s.is_available /\ now >= s.available_at
              THEN ReleaseFromMachine(s, now) ELSE s
    IN  IF ~s1.is_available /\ s1.current_machine # NoMachine
        THEN LET should_release ==
                    IF s1.current_machine \in DOMAIN ms
                    THEN \/ ~ms[s1.current_machine].is_operating
                         \/ ~Contains(ms[s1.current_machine].assigned_staff, s1.id)
                    ELSE TRUE
             IN  IF should_release THEN ReleaseFromMachine(s1, now) ELSE s1
        ELSE s1

\* rebalance, lines 432-440: the loop over the machines from machine id i
RECURSIVE RebalanceMachines(_, _, _)
RebalanceMachines(P, i, now) ==
    IF i \notin DOMAIN P.machines THEN P
    ELSE LET machine == P.machines[i] IN
         IF ~machine.is_operating /\ machine.assigned_staff # << >>
         THEN RebalanceMachines(
                  [ P EXCEPT !.staff = ReleaseAll(@, machine.assigned_staff, now),
                             !.machines[i] = DrainAssigned(@) ], i + 1, now)
         ELSE RebalanceMachines(P, i + 1, now)

\* rebalance
Rebalance(A, now) ==
    LET P  == A.production
        st == [ i \in 1..Len(P.staff) |-> RebalanceStaff(P.staff[i], P.machines, now) ]
    IN  [ A EXCEPT !.production = RebalanceMachines([ P EXCEPT !.staff = st ], 0, now) ]

\* sim_complete
SimComplete(A) ==
    \/ A.finished_goods >= cfg.items
    \/ /\ \A b \in DOMAIN A.job_queues : A.job_queues[b] = << >>
       /\ \A m \in DOMAIN A.production.machines :
             /\ ~A.production.machines[m].is_operating
             /\ A.production.machines[m].assigned_staff = << >>
       /\ \A i \in 1..Len(A.production.staff) : A.production.staff[i].is_available

\* step_simulation, lines 296-303: the target time of a tick
TargetTime(current, q) ==
    IF HasEvents(q)
    THEN LET next_time == (CHOOSE e \in HeapTops(q) : TRUE).time IN
         IF next_time > current /\ next_time < current + StepBound
         THEN next_time
         ELSE current + StepBound
    ELSE current + StepBound

\* step_simulation, lines 320-336: what a tick does once no event is due
FinishTick(A, target) ==
    LET A1 == IF A.production.simulator.current_time < target
              THEN [ A EXCEPT !.production.simulator.current_time = target ]
              ELSE A
        A2 == Rebalance(A1, target)
        A3 == TryStartAllBuckets(A2, cfg.bucket_order, target)
    IN  [ A3 EXCEPT !.production = FinalizeIdleTime(@, target) ]

----------------------------------------------------------------------------
(* main.rs: load_simulation_from_config and the configurations             *)

\* Role::new and Role::specialist
NewRole == [ machine_ids |-> << >> ]
Specialist(machine_ids) == [ machine_ids |-> machine_ids ]

\* MachineConfig, StaffConfig, ProcessConfig
MachineConfig(id, staff_required, is_automated, count) ==
    [ id |-> id, staff_required |-> staff_required, is_automated |-> is_automated,
      count |-> count ]
StaffConfig(id, role) == [ id |-> id, role |-> role ]
ProcessConfig(machine_id, duration) == [ machine_id |-> machine_id, duration |-> duration ]

\* load_simulation_from_config, lines 207-227: one entry per machine instance
RECURSIVE ExpandMachines(_)
ExpandMachines(mcfgs) ==
    IF mcfgs = << >> THEN << >>
    ELSE LET machine_cfg == Head(mcfgs)
             machine == IF machine_cfg.is_automated
                        THEN AutomatedMachine
                        ELSE NewMachine(machine_cfg.staff_required)
         IN  [ i \in 1..machine_cfg.count |-> [ bucket |-> machine_cfg.id, machine |-> machine ] ]
             \o ExpandMachines(Tail(mcfgs))

\* the machine ids pushed to machine_buckets[bucket], in the order pushed
RECURSIVE BucketMachines(_, _, _)
BucketMachines(expanded, bucket, i) ==
    IF i > Len(expanded) THEN << >>
    ELSE (IF expanded[i].bucket = bucket THEN << i - 1 >> ELSE << >>)
         \o BucketMachines(expanded, bucket, i + 1)

\* load_simulation_from_config: LoadedSim without the iteration order of the map
LoadSimulation(config) ==
    LET expanded == ExpandMachines(config.machines)
        n        == Len(expanded)
    IN  [ machine_types     |-> [ m \in 0..(n - 1) |-> expanded[m + 1].machine ],
          machine_to_bucket |-> [ m \in 0..(n - 1) |-> expanded[m + 1].bucket ],
          machine_buckets   |-> [ b \in { expanded[i].bucket : i \in 1..n } |->
                                    BucketMachines(expanded, b, 1) ],
          staff |-> config.staff,
          steps |-> config.processes,
          items |-> config.items ]

\* the orders in which a HashMap may iterate over the key set S
Orders(S) ==
    { f \in [ 1..Cardinality(S) -> S ] : \A i, j \in 1..Cardinality(S) : i # j => f[i] # f[j] }

\* every id that names a bucket: the keys of machine_buckets and the steps' targets
AllBuckets(c) == DOMAIN c.machine_buckets \cup { c.steps[i].machine_id : i \in 1..Len(c.steps) }

\* One automated machine, one step of duration 10.
AutoLine(items) ==
    [ machines  |-> << MachineConfig(0, 0, TRUE, 1) >>,
      staff     |-> << >>,
      processes |-> << ProcessConfig(0, 10) >>,
      items     |-> items ]

\* The two-step line of run_examples: CNC (machine 0, 1 staff), Assembly
\* (machine 1, 2 staff), a CNC specialist and two unrestricted staff,
\* registered in the order given.
TwoStepLine(staff_order, d1, d2, items) ==
    [ machines  |-> << MachineConfig(0, 1, FALSE, 1), MachineConfig(1, 2, FALSE, 1) >>,
      staff     |-> [ i \in 1..3 |->
                        IF staff_order[i] = 0
                        THEN StaffConfig(0, Specialist(<< 0 >>))
                        ELSE StaffConfig(staff_order[i], NewRole) ],
      processes |-> << ProcessConfig(0, d1), ProcessConfig(1, d2) >>,
      items     |-> items ]

\* A line whose two steps run on the same bucket.
ReentrantLine(staff_required, is_automated, items) ==
    [ machines  |-> << MachineConfig(0, staff_required, is_automated, 1) >>,
      staff     |-> << StaffConfig(0, NewRole) >>,
      processes |-> << ProcessConfig(0, 10), ProcessConfig(0, 5) >>,
      items     |-> items ]

\* A bucket of count identical machines that need staff_required staff each,
\* with nstaff unrestricted staff.
BucketLine(staff_required, count, nstaff, items) ==
    [ machines  |-> << MachineConfig(0, staff_required, FALSE, count) >>,
      staff     |-> [ i \in 1..nstaff |-> StaffConfig(i - 1, NewRole) ],
      processes |-> << ProcessConfig(0, 10) >>,
      items     |-> items ]

\* A bucket of two machines that need one staff member each, with one staff
\* member whose role names the second machine only.
SpecialistLine(items) ==
    [ machines  |-> << MachineConfig(0, 1, FALSE, 2) >>,
      staff     |-> << StaffConfig(0, Specialist(<< 1 >>)) >>,
      processes |-> << ProcessConfig(0, 10) >>,
      items     |-> items ]

\* the configuration files of the model
Configs ==
    { AutoLine(n) : n \in 0..MaxItems }
    \cup { TwoStepLine(o, d[1], d[2], n) :
             o \in Orders({0, 1, 2}), d \in { << 10, 10 >>, << 5, 15 >>, << 6, 3 >> }, n \in 0..MaxItems }
    \cup { ReentrantLine(k, a, n) : k \in 0..1, a \in BOOLEAN, n \in 1..MaxItems }
    \cup { BucketLine(k, c, s, n) : k \in 0..1, c \in {1, 3}, s \in 0..1, n \in 1..MaxItems }
    \cup { SpecialistLine(n) : n \in 1..MaxItems }

----------------------------------------------------------------------------
(* The driver: run_tui_with_config, run_app, step_simulation               *)

\* the App assembled from the variables; the log starts empty in every action
App ==
    [ production |-> [ machines |-> machines, staff |-> staff,
                       simulator |-> [ current_time |-> current_time,
                                       event_queue |-> event_queue ] ],
      job_queues |-> job_queues, next_pid |-> next_pid, process_meta |-> process_meta,
      finished_goods |-> finished_goods,
      log |-> << >>, started |-> started, finished_log |-> finished_log,
      requeued |-> requeued ]

\* the variables take the fields of the App A
SetApp(A) ==
    /\ machines' = A.production.machines
    /\ staff' = A.production.staff
    /\ current_time' = A.production.simulator.current_time
    /\ event_queue' = A.production.simulator.event_queue
    /\ job_queues' = A.job_queues
    /\ next_pid' = A.next_pid
    /\ process_meta' = A.process_meta
    /\ finished_goods' = A.finished_goods
    /\ log' = A.log
    /\ started' = A.started
    /\ finished_log' = A.finished_log
    /\ requeued' = A.requeued

NoCall == [ op |-> "none" ]

\* run_tui_with_config, lines 126-148: the App built from a loaded
\* configuration, one of configs
InitFrom(configs) ==
    /\ \E config \in configs :
         \E order \in Orders(DOMAIN LoadSimulation(config).machine_buckets) :
            cfg = [ machine_types     |-> LoadSimulation(config).machine_types,
                    machine_to_bucket |-> LoadSimulation(config).machine_to_bucket,
                    machine_buckets   |-> LoadSimulation(config).machine_buckets,
                    staff |-> LoadSimulation(config).staff,
                    steps |-> LoadSimulation(config).steps,
                    items |-> LoadSimulation(config).items,
                    bucket_order |-> order ]
    /\ machines = [ m \in DOMAIN cfg.machine_types |-> NewMachineState(cfg.machine_types[m]) ]
    /\ staff = [ i \in 1..Len(cfg.staff) |-> NewStaff(cfg.staff[i].id, cfg.staff[i].role) ]
    /\ event_queue = EmptyBag
    /\ current_time = 0
    /\ job_queues = [ b \in AllBuckets(cfg) |-> << >> ]
    /\ next_pid = 0
    /\ process_meta = << >>
    /\ finished_goods = 0
    /\ playing = TRUE
    /\ pc = "seed"
    /\ target_time = 0
    /\ auto = FALSE
    /\ ticks = 0
    /\ log = << >>
    /\ started = [ i \in 0..(cfg.items - 1) |-> << >> ]
    /\ finished_log = << >>
    /\ requeued = {}
    /\ complete_at = NotYet
    /\ calls = 0
    /\ last = NoCall

\* the driver starts from one of the configuration files of the model
Init == InitFrom(Configs)

\* run_tui_with_config, lines 150-163: the jobs of the first step are queued
\* for all items and dispatch is attempted at time 0
Seed ==
    /\ pc = "seed"
    /\ IF Len(cfg.steps) > 0
       THEN LET first_step == cfg.steps[1]
                bucket     == first_step.machine_id
                A1 == [ App EXCEPT !.job_queues[bucket] =
                          @ \o [ i \in 1..cfg.items |->
                                   PendingJob(first_step.duration, 0, i - 1) ] ]
            IN  SetApp(TryStartJobs(A1, bucket, 0))
       ELSE SetApp(App)
    /\ pc' = "idle"
    /\ UNCHANGED << cfg, playing, target_time, auto, ticks, complete_at, calls, last >>

\* step_simulation, lines 296-306: the target time is computed and the first
\* rebalance runs
BeginTick(by_timer) ==
    /\ pc = "idle"
    /\ current_time < MaxTime
    /\ LET target == TargetTime(current_time, event_queue) IN
         /\ target_time' = target
         /\ SetApp(Rebalance(App, target))
    /\ auto' = by_timer
    /\ pc' = "drain"
    /\ UNCHANGED << cfg, playing, ticks, complete_at, calls, last >>

\* run_app, lines 283-291: the timer fires while playing
TimerTick == playing /\ BeginTick(TRUE)

\* run_app, lines 269-271: the key n steps once
KeyStep == pc = "idle" /\ BeginTick(FALSE)

\* run_app, line 268: the space key toggles playing
KeySpace ==
    /\ pc = "idle"
    /\ playing' = ~playing
    /\ log' = << >>
    /\ UNCHANGED << cfg, machines, staff, event_queue, current_time, job_queues, next_pid,
                    process_meta, finished_goods, pc, target_time, auto, ticks,
                    started, finished_log, requeued, complete_at, calls, last >>

\* step_simulation, lines 309-318: one iteration of the loop that handles an
\* event due at the target time; Simulator::step pops it and sets the clock
DrainEvent ==
    /\ pc = "drain"
    /\ \E event \in HeapTops(event_queue) :
         /\ event.time <= target_time
         /\ SetApp(HandleEvent(
                [ App EXCEPT !.production.simulator.event_queue = HeapRemove(@, event),
                             !.production.simulator.current_time = event.time ],
                event))
    /\ UNCHANGED << cfg, playing, pc, target_time, auto, ticks, complete_at, calls, last >>

\* step_simulation, lines 319-336, and run_app, lines 286-288: no event is
\* due, the tick finishes, and a timer tick pauses when sim_complete holds
EndTick ==
    /\ pc = "drain"
    /\ \A event \in HeapTops(event_queue) : event.time > target_time
    /\ LET A == FinishTick(App, target_time) IN
         /\ SetApp(A)
         /\ playing' = IF auto /\ SimComplete(A) THEN FALSE ELSE playing
         /\ complete_at' = IF complete_at = NotYet /\ SimComplete(A)
                           THEN A.production.simulator.current_time
                           ELSE complete_at
    /\ pc' = "idle"
    /\ ticks' = ticks + 1
    /\ UNCHANGED << cfg, target_time, auto, calls, last >>

Next == Seed \/ TimerTick \/ KeyStep \/ KeySpace \/ DrainEvent \/ EndTick

Spec == Init /\ [][Next]_vars

\* the ticks keep coming: the timer of run_app fires every tick_rate while
\* playing, the key n steps while paused, and a tick that has begun runs to
\* its end
Tick == Seed \/ TimerTick \/ KeyStep \/ DrainEvent \/ EndTick

\* ENABLED <<Tick>>_vars: every Tick step changes pc or removes an event
TickEnabled ==
    \/ pc = "seed"
    \/ pc = "drain"
    \/ pc = "idle" /\ current_time < MaxTime

\* weak fairness of Tick, WF_vars(Tick), with ENABLED <<Tick>>_vars written
\* out as TickEnabled
FairSpec == Spec /\ ([]<>(~TickEnabled) \/ []<><<Tick>>_vars)

----------------------------------------------------------------------------
(* The driver on configurations with steps of duration 0 and with buckets  *)
(* that no staff member can work on                                        *)

\* An automated line whose only step takes no time.
ZeroAutoLine(items) ==
    [ AutoLine(items) EXCEPT !.processes = << ProcessConfig(0, 0) >> ]

\* A line whose two steps run on the same bucket, the first taking no time.
ZeroReentrantLine(staff_required, is_automated, d2, items) ==
    [ ReentrantLine(staff_required, is_automated, items) EXCEPT
        !.processes = << ProcessConfig(0, 0), ProcessConfig(0, d2) >> ]

\* A two-step line whose second bucket needs a specialist nobody is: the
\* staff of the first bucket's machine only.
UnstaffedLine(d1, items) ==
    [ machines  |-> << MachineConfig(0, 1, FALSE, 1), MachineConfig(1, 1, FALSE, 1) >>,
      staff     |-> << StaffConfig(0, Specialist(<< 0 >>)) >>,
      processes |-> << ProcessConfig(0, d1), ProcessConfig(1, 0) >>,
      items     |-> items ]

\* the configuration files with steps of duration 0
ZeroConfigs ==
    { ZeroAutoLine(n) : n \in 1..MaxItems }
    \cup { ZeroReentrantLine(k, a, d, n) :
             k \in 0..1, a \in BOOLEAN, d \in {0, 5}, n \in 1..MaxItems }
    \cup { TwoStepLine(<< 0, 1, 2 >>, d[1], d[2], n) :
             d \in { << 0, 5 >>, << 5, 0 >> }, n \in 1..MaxItems }
    \cup { UnstaffedLine(d, n) : d \in {0, 10}, n \in 1..MaxItems }

InitZero == InitFrom(ZeroConfigs)

SpecZero == InitZero /\ [][Next]_vars

----------------------------------------------------------------------------
(* Direct calls of the Simulator API (model/time.rs, tests)                *)

\* the state of the App part, which direct calls do not touch
NoApp ==
    /\ job_queues = << >>
    /\ next_pid = 0
    /\ process_meta = << >>
    /\ finished_goods = 0
    /\ playing = FALSE
    /\ target_time = 0
    /\ auto = FALSE
    /\ ticks = 0
    /\ log = << >>
    /\ started = << >>
    /\ finished_log = << >>
    /\ requeued = {}
    /\ complete_at = NotYet
    /\ calls = 0
    /\ last = NoCall

\* a registry with no machine and no staff
EmptyRegistry ==
    [ machine_types |-> << >>, machine_to_bucket |-> << >>, machine_buckets |-> << >>,
      staff |-> << >>, steps |-> << >>, items |-> 0, bucket_order |-> << >> ]

\* Simulator::new
InitSim ==
    /\ cfg = EmptyRegistry
    /\ machines = << >>
    /\ staff = << >>
    /\ event_queue = EmptyBag
    /\ current_time = 0
    /\ pc = "sim"
    /\ NoApp

AppUnchanged ==
    UNCHANGED << cfg, job_queues, next_pid, process_meta, finished_goods, playing, pc,
                 target_time, auto, ticks, log, started, finished_log, requeued,
                 complete_at >>

\* the events a test schedules
SimEvents ==
    { OtherEvent(t, k, 1) : t \in 0..MaxEventTime, k \in { "ProcessStart", "MaterialArrival" } }

\* Simulator::schedule_event called with any time, before or after the clock
ScheduleEventCall ==
    /\ pc = "sim"
    /\ BagCardinality(event_queue) < MaxEvents
    /\ \E e \in SimEvents :
         /\ event_queue' = ScheduleEvent(event_queue, e)
         /\ last' = [ op |-> "schedule_event", event |-> e ]
    /\ calls' = calls
    /\ UNCHANGED << machines, staff, current_time >>
    /\ AppUnchanged

\* Simulator::step on a timeline that has events
StepCall ==
    /\ pc = "sim"
    /\ HasEvents(event_queue)
    /\ \E event \in HeapTops(event_queue) :
         /\ event_queue' = HeapRemove(event_queue, event)
         /\ current_time' = event.time
         /\ last' = [ op |-> "step", some |-> TRUE, event |-> event,
                      time_before |-> current_time, queue_before |-> event_queue ]
    /\ calls' = calls
    /\ UNCHANGED << machines, staff >>
    /\ AppUnchanged

\* Simulator::step on an exhausted timeline returns None
StepEmptyCall ==
    /\ pc = "sim"
    /\ ~HasEvents(event_queue)
    /\ last' = [ op |-> "step", some |-> FALSE, event |-> OtherEvent(0, "None", 0),
                 time_before |-> current_time, queue_before |-> event_queue ]
    /\ calls' = calls
    /\ UNCHANGED << machines, staff, event_queue, current_time >>
    /\ AppUnchanged

NextSim == ScheduleEventCall \/ StepCall \/ StepEmptyCall

SpecSim == InitSim /\ [][NextSim]_vars

----------------------------------------------------------------------------
(* Simulator::run_all (model/time.rs, model/simulation_example.rs)         *)
(* A run is recorded in last: the events the callback has received, in     *)
(* order, the events scheduled so far, and whether run_all has returned.   *)

\* EventType::ProcessStart of schedule_batch
PSEvent(t, machine_id, process_id) ==
    [ time |-> t, kind |-> "ProcessStart", machine_id |-> machine_id,
      process_id |-> process_id, staff_id |-> NoId ]

\* the process times of a batch
ProcessTimes == { 1, 10 }

\* MachineSimulator::schedule_batch: the loop over item_id from item_id on,
\* with the local current_time
RECURSIVE ScheduleBatch(_, _, _, _, _, _)
ScheduleBatch(q, machine_id, num_items, process_time, item_id, batch_time) ==
    IF item_id >= num_items THEN q
    ELSE LET q1 == ScheduleEvent(q, PSEvent(batch_time, machine_id, item_id))
             q2 == ScheduleEvent(q1, PCEvent(batch_time + process_time, machine_id, item_id))
         IN ScheduleBatch(q2, machine_id, num_items, process_time, item_id + 1,
                          batch_time + process_time)

\* MachineSimulator::new(0)
InitRun ==
    /\ cfg = EmptyRegistry
    /\ machines = << >>
    /\ staff = << >>
    /\ event_queue = EmptyBag
    /\ current_time = 0
    /\ pc = "batch"
    /\ job_queues = << >>
    /\ next_pid = 0
    /\ process_meta = << >>
    /\ finished_goods = 0
    /\ playing = FALSE
    /\ target_time = 0
    /\ auto = FALSE
    /\ ticks = 0
    /\ log = << >>
    /\ started = << >>
    /\ finished_log = << >>
    /\ requeued = {}
    /\ complete_at = NotYet
    /\ calls = 0
    /\ last = [ op |-> "run_all", handled |-> << >>, scheduled |-> EmptyBag,
                num_items |-> 0, process_time |-> 0, returned |-> FALSE ]

RunUnchanged ==
    UNCHANGED << cfg, machines, staff, job_queues, next_pid, process_meta, finished_goods,
                 playing, target_time, auto, ticks, log, started, finished_log, requeued,
                 complete_at >>

\* machine.schedule_batch(num_items, process_time), then run_all is entered
ScheduleBatchCall ==
    /\ pc = "batch"
    /\ \E num_items \in 0..MaxItems, process_time \in ProcessTimes :
         /\ event_queue' = ScheduleBatch(event_queue, 0, num_items, process_time, 0, 0)
         /\ last' = [ last EXCEPT !.scheduled = event_queue',
                                  !.num_items = num_items,
                                  !.process_time = process_time ]
    /\ pc' = "run_all"
    /\ UNCHANGED << current_time, calls >>
    /\ RunUnchanged

\* run_all, one turn of the loop: step() returns an event and the callback
\* records it, as the callbacks of the tests do
RunAllRecord ==
    /\ pc = "run_all"
    /\ HasEvents(event_queue)
    /\ \E event \in HeapTops(event_queue) :
         /\ event_queue' = HeapRemove(event_queue, event)
         /\ current_time' = event.time
         /\ last' = [ last EXCEPT !.handled = Append(@, event) ]
    /\ UNCHANGED << pc, calls >>
    /\ RunUnchanged

\* the events a callback schedules
CallbackEvents == { OtherEvent(t, "MaterialArrival", 1) : t \in 0..MaxEventTime }

\* run_all, one turn of the loop with a callback that also schedules an
\* event through the &mut Simulator it is given
RunAllSchedule ==
    /\ pc = "run_all"
    /\ HasEvents(event_queue)
    /\ calls < MaxCalls
    /\ \E event \in HeapTops(event_queue), e \in CallbackEvents :
         /\ event_queue' = ScheduleEvent(HeapRemove(event_queue, event), e)
         /\ current_time' = event.time
         /\ last' = [ last EXCEPT !.handled = Append(@, event),
                                  !.scheduled = @ (+) SetToBag({ e }) ]
    /\ calls' = calls + 1
    /\ UNCHANGED pc
    /\ RunUnchanged

\* run_all: step() returns None and run_all returns
RunAllReturn ==
    /\ pc = "run_all"
    /\ ~HasEvents(event_queue)
    /\ pc' = "returned"
    /\ last' = [ last EXCEPT !.returned = TRUE ]
    /\ UNCHANGED << event_queue, current_time, calls >>
    /\ RunUnchanged

NextRun == ScheduleBatchCall \/ RunAllRecord \/ RunAllSchedule \/ RunAllReturn

SpecRun == InitRun /\ [][NextRun]_vars

----------------------------------------------------------------------------
(* Direct calls of the ProductionSimulator API (staff_scheduling.rs tests, *)
(* run_examples of main.rs)                                                 *)

\* a registry built with add_machine and add_staff
Registry(machine_types, roles) ==
    [ EmptyRegistry EXCEPT
        !.machine_types = [ m \in 0..(Len(machine_types) - 1) |-> machine_types[m + 1] ],
        !.staff = [ i \in 1..Len(roles) |-> StaffConfig(i - 1, roles[i]) ] ]

\* the registries of run_examples and of the unit tests
Registries ==
    { \* run_examples: CNC, Assembly, Conveyor; John, Jane (CNC specialist), Bob
      \* (Alice, a second assembler, is left out)
      Registry(<< NewMachine(1), NewMachine(2), AutomatedMachine >>,
               << NewRole, Specialist(<< 0 >>), NewRole >>),
      \* test_staff_unavailable: Press needs 2, one operator
      Registry(<< NewMachine(2) >>, << NewRole >>),
      \* test_specialist_staff: CNC, Lathe; a CNC specialist
      Registry(<< NewMachine(1), NewMachine(1) >>, << Specialist(<< 0 >>) >>),
      \* detects_staff_not_required_when_zero: a machine that requires no staff
      Registry(<< NewMachine(0) >>, << NewRole, NewRole >>),
      Registry(<< NewMachine(0), NewMachine(1) >>, << Specialist(<< 1 >>) >>) }

\* the times and durations the calls are made with
CallTimes == { 0, 5, 10 }
CallDurations == { 5, 10 }

\* ProductionSimulator::new, add_machine, add_staff
InitProd ==
    /\ cfg \in Registries
    /\ machines = [ m \in DOMAIN cfg.machine_types |-> NewMachineState(cfg.machine_types[m]) ]
    /\ staff = [ i \in 1..Len(cfg.staff) |-> NewStaff(cfg.staff[i].id, cfg.staff[i].role) ]
    /\ event_queue = EmptyBag
    /\ current_time = 0
    /\ pc = "prod"
    /\ NoApp

\* the ProductionSimulator assembled from the variables
Production ==
    [ machines |-> machines, staff |-> staff,
      simulator |-> [ current_time |-> current_time, event_queue |-> event_queue ] ]

SetProduction(P) ==
    /\ machines' = P.machines
    /\ staff' = P.staff
    /\ current_time' = P.simulator.current_time
    /\ event_queue' = P.simulator.event_queue

\* prod.try_start_process(machine_id, process_id, duration, now), also with
\* a machine id that is not in the registry
TryStartProcessCall ==
    /\ pc = "prod"
    /\ calls < MaxCalls
    /\ \E machine_id \in 0..Cardinality(DOMAIN machines), duration \in CallDurations,
          now \in CallTimes :
         LET R == TryStartProcess(Production, machine_id, calls, duration, now) IN
         /\ SetProduction(R.P)
         /\ last' = [ op |-> "try_start_process", machine_id |-> machine_id,
                      process_id |-> calls, duration |-> duration, now |-> now,
                      ret |-> R.ret, before |-> Production ]
    /\ calls' = calls + 1
    /\ AppUnchanged

\* prod.staff[i].release_from_machine(now)
ReleaseCall ==
    /\ pc = "prod"
    /\ calls < MaxCalls
    /\ \E i \in 1..Len(staff), now \in CallTimes :
         /\ staff' = [ staff EXCEPT ![i] = ReleaseFromMachine(@, now) ]
         /\ last' = [ op |-> "release_from_machine", staff_idx |-> i, now |-> now,
                      before |-> Production ]
    /\ calls' = calls + 1
    /\ UNCHANGED << machines, event_queue, current_time >>
    /\ AppUnchanged

\* prod.finalize_idle_time(now)
FinalizeCall ==
    /\ pc = "prod"
    /\ calls < MaxCalls
    /\ \E now \in CallTimes :
         /\ SetProduction(FinalizeIdleTime(Production, now))
         /\ last' = [ op |-> "finalize_idle_time", now |-> now, before |-> Production ]
    /\ calls' = calls + 1
    /\ AppUnchanged

\* prod.machines[m].is_operating = false, the write by which the test
\* finalize_idle_time_releases_stuck_staff makes an operating machine idle
\* while its staff are still attached
StopMachineCall ==
    /\ pc = "prod"
    /\ calls < MaxCalls
    /\ \E m \in DOMAIN machines :
         /\ machines[m].is_operating
         /\ machines' = [ machines EXCEPT ![m].is_operating = FALSE ]
         /\ last' = [ op |-> "stop_machine", machine_id |-> m, before |-> Production ]
    /\ calls' = calls + 1
    /\ UNCHANGED << staff, event_queue, current_time >>
    /\ AppUnchanged

\* rebalance(app, now) of main.rs, which reads and writes app.production only
RebalanceCall ==
    /\ pc = "prod"
    /\ calls < MaxCalls
    /\ \E now \in CallTimes :
         /\ SetProduction(Rebalance([ production |-> Production ], now).production)
         /\ last' = [ op |-> "rebalance", now |-> now, before |-> Production ]
    /\ calls' = calls + 1
    /\ AppUnchanged

NextProd ==
    \/ TryStartProcessCall
    \/ ReleaseCall
    \/ FinalizeCall
    \/ StopMachineCall
    \/ RebalanceCall

SpecProd == InitProd /\ [][NextProd]_vars

----------------------------------------------------------------------------
(* Direct calls of the Staff API (model/staff.rs, tests)                   *)

\* the roles of the tests: an operator, and a specialist for machines 0, 1
StaffRoles == { NewRole, Specialist(<< 0, 1 >>) }

\* the machine ids the calls are made with
StaffMachineIds == 0..2

\* Staff::new: one staff member, not part of a production
InitStaff ==
    /\ cfg = EmptyRegistry
    /\ machines = << >>
    /\ \E role \in StaffRoles : staff = << NewStaff(0, role) >>
    /\ event_queue = EmptyBag
    /\ current_time = 0
    /\ pc = "staff"
    /\ NoApp

\* staff.assign_to_machine(machine_id, duration, now)
StaffAssignCall ==
    /\ pc = "staff"
    /\ calls < MaxCalls
    /\ \E machine_id \in StaffMachineIds, duration \in CallDurations, now \in CallTimes :
         /\ staff' = << AssignToMachine(staff[1], machine_id, duration, now) >>
         /\ last' = [ op |-> "assign_to_machine", machine_id |-> machine_id,
                      duration |-> duration, now |-> now,
                      ret |-> AssignReturns(staff[1], machine_id), before |-> staff[1] ]
    /\ calls' = calls + 1
    /\ UNCHANGED << machines, event_queue, current_time >>
    /\ AppUnchanged

\* staff.release_from_machine(now)
StaffReleaseCall ==
    /\ pc = "staff"
    /\ calls < MaxCalls
    /\ \E now \in CallTimes :
         /\ staff' = << ReleaseFromMachine(staff[1], now) >>
         /\ last' = [ op |-> "release_from_machine", now |-> now, before |-> staff[1] ]
    /\ calls' = calls + 1
    /\ UNCHANGED << machines, event_queue, current_time >>
    /\ AppUnchanged

\* staff.accumulate_idle_until(now)
StaffAccumulateCall ==
    /\ pc = "staff"
    /\ calls < MaxCalls
    /\ \E now \in CallTimes :
         /\ staff' = << AccumulateIdleUntil(staff[1], now) >>
         /\ last' = [ op |-> "accumulate_idle_until", now |-> now, before |-> staff[1] ]
    /\ calls' = calls + 1
    /\ UNCHANGED << machines, event_queue, current_time >>
    /\ AppUnchanged

\* role.can_work_on(machine_id) and staff.can_work_on(machine_id)
StaffCanWorkOnCall ==
    /\ pc = "staff"
    /\ calls < MaxCalls
    /\ \E machine_id \in StaffMachineIds :
         last' = [ op |-> "can_work_on", machine_id |-> machine_id,
                   role_ret |-> RoleCanWorkOn(staff[1].role, machine_id),
                   ret |-> StaffCanWorkOn(staff[1], machine_id), before |-> staff[1] ]
    /\ calls' = calls + 1
    /\ UNCHANGED << machines, staff, event_queue, current_time >>
    /\ AppUnchanged

NextStaff ==
    StaffAssignCall \/ StaffReleaseCall \/ StaffAccumulateCall \/ StaffCanWorkOnCall

SpecStaff == InitStaff /\ [][NextStaff]_vars

----------------------------------------------------------------------------
(* Properties of the driver *)

\* the state at the end of a tick
EndOfTick == pc = "idle" /\ ticks > 0

\* the configuration is the two-step line
IsTwoStepLine ==
    /\ DOMAIN cfg.machine_types = {0, 1}
    /\ cfg.machine_types[0] = NewMachine(1)
    /\ cfg.machine_types[1] = NewMachine(2)
    /\ Len(cfg.steps) = 2
    /\ cfg.steps[1].machine_id = 0
    /\ cfg.steps[2].machine_id = 1
    /\ Len(cfg.staff) = 3

\* the configuration is the automated line with 3 items
IsAutoLine3 ==
    /\ DOMAIN cfg.machine_types = {0}
    /\ cfg.machine_types[0] = AutomatedMachine
    /\ cfg.steps = << ProcessConfig(0, 10) >>
    /\ cfg.items = 3

\* C1: on the two-step line with one CNC specialist and two unrestricted
\* staff, whatever the item count and the registration order, repeated ticks
\* lead to a tick that ends with finished_goods equal to the item count and
\* sim_complete reporting completion.
C1_TwoStepLineCompletes ==
    IsTwoStepLine =>
        <>(EndOfTick /\ finished_goods = cfg.items /\ SimComplete(App) /\ complete_at # NotYet)

C1_Witness ==
    /\ IsTwoStepLine /\ cfg.items = MaxItems /\ cfg.staff[1].role = NewRole
    /\ EndOfTick /\ finished_goods = cfg.items /\ complete_at # NotYet

\* C2: one automated machine, one step of duration 10, 3 items: when
\* completion is first reported finished_goods is 3 and the clock is 30, and
\* the items were started one at a time, at 0, 10 and 20.
C2_AutoLineThreeItems ==
    (IsAutoLine3 /\ complete_at # NotYet) =>
        /\ finished_goods = 3
        /\ complete_at = 30
        /\ \A i \in 0..2 : Len(started[i]) = 1 /\ started[i][1].time = 10 * i

C2_Witness == IsAutoLine3 /\ complete_at = 30 /\ current_time = 30 /\ finished_goods = 3

\* C3: at the end of a tick at which finished_goods equals the item count,
\* every staff member is available with no current machine and every machine
\* is not operating and has no assigned staff.
C3_NoBusyStaffWhenFinished ==
    (EndOfTick /\ finished_goods = cfg.items) =>
        /\ \A i \in 1..Len(staff) :
              staff[i].is_available /\ staff[i].current_machine = NoMachine
        /\ \A m \in DOMAIN machines :
              ~machines[m].is_operating /\ machines[m].assigned_staff = << >>

C3_Witness ==
    /\ EndOfTick /\ finished_goods = cfg.items /\ cfg.items > 1 /\ IsTwoStepLine
    /\ \E i \in 1..Len(staff) : staff[i].idle_time < current_time

C5_StepReturnsEarliest ==
    (last.op = "step" /\ last.some) =>
        \A e \in BagToSet(event_queue) : last.event.time <= e.time

\* a step returned an event while an event of the same time and an event of
\* a later time stay pending
C5_Witness ==
    /\ last.op = "step" /\ last.some
    /\ \E e \in BagToSet(event_queue) : e.time = last.event.time
    /\ \E e \in BagToSet(event_queue) : e.time > last.event.time

\* the staff that are available and whose role allows machine m
AvailableEligible(st, m) ==
    { i \in 1..Len(st) :
        /\ st[i].is_available
        /\ \/ st[i].role.machine_ids = << >>
           \/ \E x \in 1..Len(st[i].role.machine_ids) : st[i].role.machine_ids[x] = m }

\* the last call was try_start_process on a non-automated machine of the registry
StartedOnStaffedMachine ==
    /\ last.op = "try_start_process"
    /\ last.machine_id \in DOMAIN machines
    /\ ~machines[last.machine_id].machine.is_automated

FirstEligible(st, m, k) ==
    { i \in AvailableEligible(st, m) :
        Cardinality({ j \in AvailableEligible(st, m) : j < i }) < k }

\* C7: when try_start_process succeeds on a non-automated machine with
\* staff_required = k, for every k >= 0, exactly the first k available,
\* role-eligible staff in registration order are assigned: each becomes
\* unavailable on that machine until now + duration and is listed on the
\* machine, exactly k StaffReleased events and one ProcessComplete event are
\* scheduled at now + duration, and no other staff member is changed.
C7_ExactlyTheFirstKStaff ==
    (StartedOnStaffedMachine /\ last.ret) =>
        LET m    == last.machine_id
            k    == machines[m].machine.staff_required
            end  == last.now + last.duration
            sel  == FirstEligible(last.before.staff, m, k)
        IN  /\ \A i \in 1..Len(staff) :
                  IF i \in sel
                  THEN /\ ~staff[i].is_available
                       /\ staff[i].current_machine = m
                       /\ staff[i].available_at = end
                       /\ Contains(machines[m].assigned_staff, staff[i].id)
                  ELSE staff[i] = last.before.staff[i]
            /\ Len(machines[m].assigned_staff)
                  = Len(last.before.machines[m].assigned_staff) + Cardinality(sel)
            /\ event_queue = last.before.simulator.event_queue
                  (+) SetToBag({ SREvent(end, staff[i].id, m) : i \in sel })
                  (+) SetToBag({ PCEvent(end, m, last.process_id) })

\* the dispatch attempts of the last action, over all try_start_jobs calls
Attempts == { << c, k >> \in (1..Len(log)) \X (1..8) : k <= Len(log[c]) }

\* the jobs of a queue
Jobs(queue) == { queue[i] : i \in 1..Len(queue) }

\* C8: the job a try_start_jobs attempt takes from the queue has the
\* highest step_index of all jobs queued for the bucket, and the lowest
\* item_id among the jobs with that step_index.
C8_HighestStepLowestItemFirst ==
    \A a \in Attempts :
        LET at == log[a[1]][a[2]] IN
        at.started =>
            /\ at.job \in Jobs(at.queue_before)
            /\ \A j \in Jobs(at.queue_before) :
                  /\ j.step_index <= at.job.step_index
                  /\ j.step_index = at.job.step_index => at.job.item_id <= j.item_id

\* a job of a later step is started although it was queued behind jobs of
\* an earlier step
C8_Witness ==
    \E a \in Attempts :
        LET at == log[a[1]][a[2]] IN
        /\ at.started
        /\ Len(at.queue_before) >= 2
        /\ at.queue_before[1].step_index < at.job.step_index
        /\ at.queue_before[1].item_id > at.job.item_id

\* C9: when the start of the selected job fails for lack of staff, the
\* queue holds the same jobs as before the attempt, the chosen machine is
\* not operating and waits for "Staff", no staff member is changed, and the
\* call attempts no further job.
C9_FailedStartRequeuesAndStops ==
    \A a \in Attempts :
        LET at == log[a[1]][a[2]] IN
        ~at.started =>
            /\ Jobs(at.queue_after) = Jobs(at.queue_before)
            /\ Len(at.queue_after) = Len(at.queue_before)
            /\ ~at.production_before.machines[at.machine_id].is_operating
            /\ ~at.production_after.machines[at.machine_id].is_operating
            /\ at.production_after.machines[at.machine_id].waiting_for = "Staff"
            /\ at.production_after.staff = at.production_before.staff
            /\ a[2] = Len(log[a[1]])

\* a start fails while a second machine of the bucket is idle and a second
\* job is queued
C9_Witness ==
    \E a \in Attempts :
        LET at == log[a[1]][a[2]] IN
        /\ ~at.started
        /\ Len(at.queue_before) >= 2
        /\ Cardinality(IdleIndices(at.production_before.machines,
                                   cfg.machine_buckets[at.bucket_id])) >= 2

\* the starts of every item are those of steps 0, 1, ... in order, each on
\* a machine of the step's bucket with the step's duration; finished_goods
\* counts each item once, after its last step was started
ItemsProgressInOrder ==
    /\ \A i \in DOMAIN started :
          /\ Len(started[i]) <= Len(cfg.steps)
          /\ \A k \in 1..Len(started[i]) :
                /\ started[i][k].step_index = k - 1
                /\ cfg.machine_to_bucket[started[i][k].machine_id] = cfg.steps[k].machine_id
                /\ started[i][k].duration = cfg.steps[k].duration
    /\ finished_goods = Len(finished_log)
    /\ finished_goods <= cfg.items
    /\ \A k \in 1..Len(finished_log) :
          /\ finished_log[k] \in DOMAIN started
          /\ Len(started[finished_log[k]]) = Len(cfg.steps)
          /\ \A l \in 1..Len(finished_log) : l # k => finished_log[l] # finished_log[k]

\* finished_goods changes only by one, when the ProcessComplete event of a
\* tracked process of the last step is handled
FinishedOnLastStepOnly ==
    finished_goods' # finished_goods =>
        /\ finished_goods' = finished_goods + 1
        /\ pc = "drain"
        /\ \E e \in HeapTops(event_queue) :
              /\ e.kind = "ProcessComplete"
              /\ e.process_id \in DOMAIN process_meta
              /\ process_meta[e.process_id][1] = Len(cfg.steps) - 1
              /\ process_meta[e.process_id][2] = finished_log'[Len(finished_log')]
              /\ CopiesIn(e, event_queue') = CopiesIn(e, event_queue) - 1

\* C10: every item is started on steps 0 .. N-1 in order, each once, on a
\* machine of the step's bucket with the step's duration; finished_goods is
\* incremented once per item, when the ProcessComplete of its last step is
\* handled; it never decreases and never exceeds the item count.
C10_ItemsFollowTheSteps ==
    [](ItemsProgressInOrder) /\ [][FinishedOnLastStepOnly]_vars

C10_Witness ==
    /\ Len(cfg.steps) = 2 /\ cfg.items >= 2
    /\ finished_goods = cfg.items
    /\ \A i \in DOMAIN started : Len(started[i]) = 2

----------------------------------------------------------------------------
(* Properties of finalize_idle_time *)

\* the staff of P that are marked busy on a machine that is unknown, is not
\* operating or does not list them
StuckStaff(P) ==
    { i \in 1..Len(P.staff) :
        /\ ~P.staff[i].is_available
        /\ P.staff[i].current_machine # NoMachine
        /\ \/ P.staff[i].current_machine \notin DOMAIN P.machines
           \/ ~P.machines[P.staff[i].current_machine].is_operating
           \/ ~Contains(P.machines[P.staff[i].current_machine].assigned_staff,
                        P.staff[i].id) }

\* C12: after finalize_idle_time(now), for every now, no staff member is
\* left marked busy on a machine that is unknown, is not operating or does
\* not list that staff member.
C12_FinalizeReleasesStuckStaff ==
    last.op = "finalize_idle_time" => StuckStaff(Production) = {}

\* C13: after finalize_idle_time(now), a second finalize_idle_time with the
\* same now changes no field of any staff member or machine.
C13_FinalizeIdempotent ==
    last.op = "finalize_idle_time" => FinalizeIdleTime(Production, last.now) = Production

\* the first call released a stuck staff member and added idle time to a
\* staff member and to a machine
C13_Witness ==
    /\ last.op = "finalize_idle_time"
    /\ StuckStaff(last.before) # {}
    /\ StuckStaff(Production) = {}
    /\ \E i \in 1..Len(staff) : staff[i].idle_time > last.before.staff[i].idle_time
    /\ \E m \in DOMAIN machines : machines[m].idle_time > last.before.machines[m].idle_time

\* no idle_time is smaller after the step than before it
IdleNeverDecreases ==
    /\ \A i \in 1..Len(staff) : staff'[i].idle_time >= staff[i].idle_time
    /\ \A m \in DOMAIN machines : machines'[m].idle_time >= machines[m].idle_time

\* C14: over any sequence of starts, handled events, rebalances and
\* finalize_idle_time calls with non-decreasing now, no staff member's and no
\* machine's idle_time ever decreases.
C14_IdleTimeMonotonic == [][IdleNeverDecreases]_vars

\* idle time was added to a staff member who then was assigned again, and
\* to a machine that then started again
C14_Witness ==
    /\ ticks >= 2
    /\ \E i \in 1..Len(staff) : staff[i].idle_time > 0 /\ ~staff[i].is_available
    /\ \E m \in DOMAIN machines : machines[m].idle_time > 0 /\ machines[m].is_operating

\* C17: try_start_process on an automated machine returns true whatever
\* the staff state, changes no staff member, marks the machine operating with
\* no waiting reason and no assigned staff, and schedules exactly one
\* ProcessComplete event at now + duration and no other event.
C17_AutomatedStartsWithoutStaff ==
    ( /\ last.op = "try_start_process"
      /\ last.machine_id \in DOMAIN machines
      /\ machines[last.machine_id].machine.is_automated ) =>
        /\ last.ret = TRUE
        /\ staff = last.before.staff
        /\ machines[last.machine_id].is_operating
        /\ machines[last.machine_id].waiting_for = "None"
        /\ machines[last.machine_id].assigned_staff = << >>
        /\ \A m \in DOMAIN machines \ { last.machine_id } :
              machines[m] = last.before.machines[m]
        /\ event_queue = last.before.simulator.event_queue
              (+) SetToBag({ PCEvent(last.now + last.duration, last.machine_id,
                                     last.process_id) })

\* the automated machine starts while no staff member is available
C17_Witness ==
    /\ last.op = "try_start_process"
    /\ last.machine_id \in DOMAIN machines
    /\ machines[last.machine_id].machine.is_automated
    /\ ~last.before.machines[last.machine_id].is_operating
    /\ \A i \in 1..Len(staff) : ~last.before.staff[i].is_available
    /\ last.ret = TRUE

\* C18: try_start_process with a machine id that is not in the registry
\* returns false; no machine, no staff member and no event changes.
C18_UnknownMachineFails ==
    ( /\ last.op = "try_start_process"
      /\ last.machine_id \notin DOMAIN last.before.machines ) =>
        /\ last.ret = FALSE
        /\ Production = last.before

\* the call is made on a production with a running process
C18_Witness ==
    /\ last.op = "try_start_process"
    /\ last.machine_id \notin DOMAIN last.before.machines
    /\ last.ret = FALSE
    /\ \E m \in DOMAIN machines : machines[m].is_operating
    /\ event_queue # EmptyBag

----------------------------------------------------------------------------
(* Properties of the Staff API *)

\* C15: release_from_machine(now) with now < available_at leaves every
\* field of the staff member as it was, also right after a successful
\* assign_to_machine; with now >= available_at the staff member is available,
\* has no current machine and last_status_change = now, the other fields as
\* they were.
C15_ReleaseGuard ==
    last.op = "release_from_machine" =>
        IF last.now < last.before.available_at
        THEN staff[1] = last.before
        ELSE staff[1] = [ last.before EXCEPT !.is_available = TRUE,
                                             !.current_machine = NoMachine,
                                             !.last_status_change = last.now ]

\* a busy staff member is released before available_at
C15_Witness ==
    /\ last.op = "release_from_machine"
    /\ ~last.before.is_available
    /\ last.before.current_machine # NoMachine
    /\ last.now < last.before.available_at
    /\ ~staff[1].is_available

\* the role of s lists machine_id or lists nothing
RoleAllows(s, machine_id) ==
    \/ s.role.machine_ids = << >>
    \/ \E i \in DOMAIN s.role.machine_ids : s.role.machine_ids[i] = machine_id

\* C16: assign_to_machine(machine_id, duration, now) returns false and
\* changes no field unless the staff member is available and the role allows
\* machine_id; on success it adds max(now - last_status_change, 0) to
\* idle_time, makes the staff member unavailable on machine_id and sets
\* available_at = now + duration and last_status_change = now.
C16_AssignGuard ==
    last.op = "assign_to_machine" =>
        IF last.before.is_available /\ RoleAllows(last.before, last.machine_id)
        THEN /\ last.ret
             /\ staff[1] =
                   [ last.before EXCEPT
                       !.idle_time = @ + (IF last.now > last.before.last_status_change
                                          THEN last.now - last.before.last_status_change
                                          ELSE 0),
                       !.is_available = FALSE,
                       !.current_machine = last.machine_id,
                       !.available_at = last.now + last.duration,
                       !.last_status_change = last.now ]
        ELSE /\ ~last.ret
             /\ staff[1] = last.before

\* an available specialist is refused a machine outside the role
C16_Witness ==
    /\ last.op = "assign_to_machine"
    /\ last.before.is_available
    /\ ~RoleAllows(last.before, last.machine_id)
    /\ ~last.ret
    /\ last.before.last_status_change > 0

----------------------------------------------------------------------------
(* Properties of the clock *)

\* the time of the earliest event pending in the non-empty queue q
EarliestTime(q) ==
    CHOOSE t \in { e.time : e \in BagToSet(q) } : \A e \in BagToSet(q) : t <= e.time

\* the step begins a tick; the step ends a tick
TickBegins == pc = "idle" /\ pc' = "drain"
TickEnds == pc = "drain" /\ pc' = "idle"

\* the target of the tick that begins is the clock + 10, or the time of the
\* earliest pending event when that is in the future and sooner
TargetAsComputed ==
    TickBegins =>
        /\ current_time' = current_time
        /\ target_time' =
              IF /\ event_queue # EmptyBag
                 /\ EarliestTime(event_queue) > current_time
                 /\ EarliestTime(event_queue) < current_time + StepBound
              THEN EarliestTime(event_queue)
              ELSE current_time + StepBound

\* the tick that ends leaves the clock at its target
ClockReachesTarget == TickEnds => current_time' = target_time

\* the target is 1 to 10 units after the clock
TargetWithinBound ==
    TickBegins => target_time' - current_time \in 1..StepBound

\* the target is not after any pending event of the future
TargetNotPastFutureEvent ==
    TickBegins =>
        \A e \in BagToSet(event_queue) : e.time > current_time => target_time' <= e.time

\* C19: the target of a tick is the clock + 10, or the time of the earliest
\* pending event when that is strictly in the future and sooner; the tick
\* ends with the clock at the target; so every tick advances the clock by 1
\* to 10 units and never past the next pending future event.
C19_TickTarget ==
    [][ /\ TargetAsComputed
        /\ ClockReachesTarget
        /\ TargetWithinBound
        /\ TargetNotPastFutureEvent ]_vars

\* C20: for any sequence of schedule_event and step calls, the current time
\* after a step() is greater than or equal to the current time before it.
C20_ClockMonotonic ==
    (last.op = "step" /\ last.some) => current_time >= last.time_before


----------------------------------------------------------------------------
(* Properties of requeued jobs                                             *)

\* the staff of the registry whose role allows work on the machine
EligibleStaff(machine_id) ==
    { i \in 1..Len(staff) : StaffCanWorkOn(staff[i], machine_id) }

\* the registry holds at least staff_required staff eligible for the machine
EnoughEligibleStaff(machine_id) ==
    Cardinality(EligibleStaff(machine_id)) >= machines[machine_id].machine.staff_required

\* the step of the item has been started
StepStarted(item_id, step_index) ==
    item_id \in DOMAIN started /\ Len(started[item_id]) > step_index

\* the requeued jobs that were tried on a machine of their bucket for which
\* the registry holds enough eligible staff
RetriableJobs ==
    { r \in requeued :
        /\ Contains(cfg.machine_buckets[cfg.steps[r.step_index + 1].machine_id], r.machine_id)
        /\ EnoughEligibleStaff(r.machine_id) }

----------------------------------------------------------------------------
(* Properties of the timeline                                              *)

\* C21: step() on a timeline with events removes exactly one event, of
\* minimal time, and returns it; the other pending events stay and the
\* current time becomes the time of the returned event.  step() on an empty
\* timeline returns nothing and leaves the queue and the current time alone.
C21_StepRemovesOneEarliest ==
    last.op = "step" =>
        IF last.some
        THEN /\ BagIn(last.event, last.queue_before)
             /\ event_queue (+) SetToBag({ last.event }) = last.queue_before
             /\ BagCardinality(event_queue) = BagCardinality(last.queue_before) - 1
             /\ \A e \in BagToSet(last.queue_before) : last.event.time <= e.time
             /\ current_time = last.event.time
        ELSE /\ last.queue_before = EmptyBag
             /\ event_queue = EmptyBag
             /\ current_time = last.time_before

\* a step returned one of two equal events and left the other and a later
\* event pending, moving the clock
C21_Witness ==
    /\ last.op = "step" /\ last.some
    /\ BagIn(last.event, event_queue)
    /\ \E e \in BagToSet(event_queue) : e.time > last.event.time
    /\ current_time # last.time_before

\* a step on the empty timeline after the clock has moved
C21_WitnessEmpty ==
    /\ last.op = "step" /\ ~last.some
    /\ current_time > 0

----------------------------------------------------------------------------
(* Properties of run_all                                                   *)

\* the number of times the callback of run_all received the event e
TimesHandled(e) == Cardinality({ i \in 1..Len(last.handled) : last.handled[i] = e })

\* the callback received every scheduled event exactly once
HandledOnce ==
    /\ \A e \in BagToSet(last.scheduled) : TimesHandled(e) = CopiesIn(e, last.scheduled)
    /\ \A i \in 1..Len(last.handled) : BagIn(last.handled[i], last.scheduled)

\* the callback received the events in non-decreasing time order
HandledInTimeOrder ==
    \A i, j \in 1..Len(last.handled) : i <= j => last.handled[i].time <= last.handled[j].time

\* the clock is at the time of the last event handled
ClockAtLastHandled ==
    last.handled # << >> => current_time = last.handled[Len(last.handled)].time

\* the callback scheduled no event: the run handles the batch alone
BatchAlone == last.scheduled = ScheduleBatch(EmptyBag, 0, last.num_items, last.process_time, 0, 0)

\* after schedule_batch(n, p) alone the run handles 2n events and ends at n*p
BatchHandled ==
    BatchAlone =>
        /\ Len(last.handled) = 2 * last.num_items
        /\ current_time = last.num_items * last.process_time

\* C22: when run_all returns, the callback has received every scheduled
\* event exactly once, those the callback scheduled during the run
\* included, in non-decreasing time order; the queue is empty and the
\* current time is the time of the last event handled; after
\* schedule_batch(n, p) alone 2n events were handled and the time is n*p.
C22_RunAllHandlesEveryEvent ==
    (last.op = "run_all" /\ last.returned) =>
        /\ HandledOnce
        /\ HandledInTimeOrder
        /\ event_queue = EmptyBag
        /\ ClockAtLastHandled
        /\ BatchHandled

----------------------------------------------------------------------------
(* Properties of roles                                                     *)

\* the machine ids a role lists
AllowedMachines(role) == { role.machine_ids[i] : i \in 1..Len(role.machine_ids) }

\* C23: a role can work on machine m exactly when its list of machines is
\* empty or contains m (the role restricted to 0 and 1 can work on 0 and 1
\* and on no other machine), and Staff.can_work_on answers as the role of
\* the staff member does.
C23_RoleDecidesEligibility ==
    last.op = "can_work_on" =>
        LET role == staff[1].role
            m    == last.machine_id
        IN  /\ last.role_ret <=> (AllowedMachines(role) = {} \/ m \in AllowedMachines(role))
            /\ role = Specialist(<< 0, 1 >>) => (last.role_ret <=> m \in { 0, 1 })
            /\ last.ret <=> last.role_ret

\* the specialist for machines 0 and 1 is asked about machine 2 while busy
\* on machine 1
C23_Witness ==
    /\ last.op = "can_work_on"
    /\ staff[1].role = Specialist(<< 0, 1 >>)
    /\ last.machine_id = 2
    /\ ~last.ret
    /\ staff[1].current_machine = 1

\* an unrestricted staff member is asked
C23_WitnessUnrestricted ==
    /\ last.op = "can_work_on"
    /\ staff[1].role = NewRole
    /\ last.ret

----------------------------------------------------------------------------
(* Properties of machines and staff over a run of the driver               *)

\* the process starts of the run, as pairs of an item and a position in the
\* item's starts
Starts ==
    { s \in (DOMAIN started) \X (1..Len(cfg.steps)) : s[2] <= Len(started[s[1]]) }

\* the start s
StartOf(s) == started[s[1]][s[2]]

\* C24: the intervals [start, start + duration) of the processes started on
\* one machine never overlap: no job is started on a machine before the
\* completion time of a job started on it earlier.
C24_OneJobPerMachine ==
    \A a, b \in Starts :
        ( /\ a # b
          /\ StartOf(a).machine_id = StartOf(b).machine_id
          /\ StartOf(a).duration > 0 /\ StartOf(b).duration > 0
          /\ StartOf(a).time <= StartOf(b).time )
        => StartOf(b).time >= StartOf(a).time + StartOf(a).duration

\* the staff an attempt assigned: those whose record the start changed
AssignedBy(at) ==
    { i \in 1..Len(at.production_before.staff) :
        /\ at.production_before.staff[i].is_available
        /\ ~at.production_after.staff[i].is_available }

\* C25: a staff member is never assigned to a process at a time before
\* the end (available_at) of the commitment they were given before, so the
\* intervals [start, start + duration) of their assignments do not overlap.
C25_OneJobPerStaff ==
    \A a \in Attempts :
        LET at == log[a[1]][a[2]] IN
        at.started =>
            \A i \in AssignedBy(at) :
                /\ at.now >= at.production_before.staff[i].available_at
                /\ at.production_after.staff[i].available_at = at.now + at.job.duration

\* C26: in every state of a run of the driver, every non-automated machine
\* that is marked operating lists exactly staff_required staff in
\* assigned_staff.
C26_OperatingMachineFullyStaffed ==
    \A m \in DOMAIN machines :
        (machines[m].is_operating /\ ~machines[m].machine.is_automated)
            => Len(machines[m].assigned_staff) = machines[m].machine.staff_required

\* a process started on machine m has its ProcessComplete event pending
RunningOn(m) ==
    \E s \in Starts :
        /\ StartOf(s).machine_id = m
        /\ BagIn(PCEvent(StartOf(s).time + StartOf(s).duration, m, StartOf(s).pid), event_queue)

\* C27: at the end of every tick a machine is marked operating exactly when
\* a process started on it has its ProcessComplete event pending; an event
\* of an earlier process never marks idle a machine that runs a later one.
C27_OperatingIffProcessPending ==
    EndOfTick => \A m \in DOMAIN machines : machines[m].is_operating <=> RunningOn(m)

\* the number of jobs of the item in the bucket queues
TimesQueued(item_id) ==
    Cardinality(UNION { { << b, k >> : k \in { x \in 1..Len(job_queues[b]) :
                                                  job_queues[b][x].item_id = item_id } } :
                        b \in DOMAIN job_queues })

\* the number of pending ProcessComplete events of tracked processes of the item
TimesInProcess(item_id) ==
    BagCardinality(
        [ e \in { x \in BagToSet(event_queue) :
                    /\ x.kind = "ProcessComplete"
                    /\ x.process_id \in DOMAIN process_meta
                    /\ process_meta[x.process_id][2] = item_id }
          |-> CopiesIn(e, event_queue) ])

\* the number of times finished_goods counted the item
TimesFinished(item_id) ==
    Cardinality({ k \in 1..Len(finished_log) : finished_log[k] = item_id })

\* C28: at the end of every tick each item is in exactly one place: queued
\* once in one bucket queue, in process with one pending ProcessComplete
\* event of a tracked process, or counted in finished_goods.
C28_NoItemLostOrDuplicated ==
    EndOfTick =>
        /\ finished_goods = Len(finished_log)
        /\ \A item_id \in 0..(cfg.items - 1) :
              TimesQueued(item_id) + TimesInProcess(item_id) + TimesFinished(item_id) = 1

\* at the end of a tick one item is queued, one in process and one finished
C28_Witness ==
    /\ EndOfTick
    /\ \E i, j, k \in 0..(cfg.items - 1) :
          /\ TimesQueued(i) = 1
          /\ TimesInProcess(j) = 1
          /\ TimesFinished(k) = 1

\* C29: in every state, for every staff member, current_machine is set
\* exactly when the staff member is not available.
C29_MachineSetIffBusy ==
    \A i \in 1..Len(staff) :
        (staff[i].current_machine # NoMachine) <=> ~staff[i].is_available

\* one staff member is busy on a machine while another has been released
\* from an earlier assignment
C29_Witness ==
    \E i, j \in 1..Len(staff) :
        /\ ~staff[i].is_available /\ staff[i].current_machine # NoMachine
        /\ staff[j].is_available /\ staff[j].available_at > 0
        /\ staff[j].current_machine = NoMachine

\* every machine of P that is not operating has an empty assigned_staff list
IdleMachinesHoldNoStaff(P) ==
    \A m \in DOMAIN P.machines :
        ~P.machines[m].is_operating => P.machines[m].assigned_staff = << >>

\* C30: after every rebalance pass and after every finalize_idle_time call,
\* every machine that is not operating has an empty assigned_staff list.
C30_IdleMachinesCleared ==
    /\ last.op \in { "rebalance", "finalize_idle_time" } => IdleMachinesHoldNoStaff(Production)
    /\ pc \in { "idle", "drain" } =>
          /\ IdleMachinesHoldNoStaff(Rebalance(App, target_time).production)
          /\ IdleMachinesHoldNoStaff(FinalizeIdleTime(Production, target_time))
    /\ EndOfTick => IdleMachinesHoldNoStaff(Production)

\* a rebalance pass has cleared a machine that was idle with staff listed
C30_Witness ==
    /\ last.op = "rebalance"
    /\ ~IdleMachinesHoldNoStaff(last.before)
    /\ \E m \in DOMAIN machines : ~machines[m].is_operating

\* a finalize_idle_time call has cleared a machine that was idle with staff listed
C30_WitnessFinalize ==
    /\ last.op = "finalize_idle_time"
    /\ ~IdleMachinesHoldNoStaff(last.before)
    /\ \E m \in DOMAIN machines : ~machines[m].is_operating

----------------------------------------------------------------------------
(* Properties of a tick *)

\* the events pending with a time at or before t
DueEvents(q, t) == { e \in BagToSet(q) : e.time <= t }

\* C31: each tick handles every timeline event whose time is at or before
\* the tick's target time, those scheduled while the tick runs included, so
\* that at the end of a tick no event with a time at or before the clock is
\* left pending.
C31_NoDueEventAfterTick ==
    EndOfTick => DueEvents(event_queue, current_time) = {}

----------------------------------------------------------------------------
(* Properties of try_start_jobs *)

\* machine m is one of the bucket's machines
InBucket(bucket_id, m) ==
    bucket_id \in DOMAIN cfg.machine_buckets /\ Contains(cfg.machine_buckets[bucket_id], m)

\* no machine of the bucket is idle among the machines ms
NoIdleMachine(ms, bucket_id) ==
    \A m \in DOMAIN ms : InBucket(bucket_id, m) => ms[m].is_operating

\* every attempt is made on a machine of the bucket that is idle when the
\* attempt is made, and an attempt follows a successful one only
AttemptsOnIdleMachines ==
    \A a \in Attempts :
        LET at == log[a[1]][a[2]] IN
        /\ InBucket(at.bucket_id, at.machine_id)
        /\ cfg.machine_to_bucket[at.machine_id] = cfg.steps[at.job.step_index + 1].machine_id
        /\ ~at.production_before.machines[at.machine_id].is_operating
        /\ at.started => at.production_after.machines[at.machine_id].is_operating
        /\ a[2] > 1 => log[a[1]][a[2] - 1].started

\* a call of try_start_jobs made in a state where the bucket has no idle
\* machine changes nothing
NoIdleMachineNoChange ==
    pc \in { "idle", "drain" } =>
        \A b \in DOMAIN job_queues :
            NoIdleMachine(machines, b) =>
                LET A == TryStartJobs(App, b, current_time) IN
                /\ A.job_queues = job_queues
                /\ A.process_meta = process_meta
                /\ A.next_pid = next_pid
                /\ A.production = App.production

\* the seeding call stopped after its last attempt: the queue, the
\* tracked-process table and the process-id counter are as that attempt
\* left them
SeedStopsAfterLastAttempt ==
    (pc = "idle" /\ ticks = 0 /\ Len(log) = 1 /\ log[1] # << >>) =>
        LET at == log[1][Len(log[1])] IN
        /\ job_queues[at.bucket_id] = at.queue_after
        /\ next_pid = at.pid + 1
        /\ DOMAIN process_meta = 0..at.pid
        /\ machines = at.production_after.machines
        /\ (at.started /\ at.queue_after # << >>) =>
              NoIdleMachine(at.production_after.machines, at.bucket_id)

\* C32: try_start_jobs starts a job only on a machine of the job's bucket
\* whose is_operating flag is false at that moment; when no machine of the
\* bucket is idle it stops and leaves the bucket's queue, the
\* tracked-process table and the process-id counter unchanged.
C32_StartsOnIdleMachinesOnly ==
    /\ AttemptsOnIdleMachines
    /\ NoIdleMachineNoChange
    /\ SeedStopsAfterLastAttempt

\* the seeding call started a job on the last idle machine of the bucket and
\* stopped with jobs still queued
C32_Witness ==
    /\ pc = "idle" /\ ticks = 0 /\ Len(log) = 1
    /\ log[1] # << >>
    /\ log[1][Len(log[1])].started
    /\ log[1][Len(log[1])].queue_after # << >>
    /\ NoIdleMachine(machines, log[1][1].bucket_id)
    /\ job_queues[log[1][1].bucket_id] = log[1][Len(log[1])].queue_after
    /\ next_pid = Len(log[1])

----------------------------------------------------------------------------
(* Properties of the idle time of machines *)

\* the units of time before the clock during which a process started on
\* machine m was running
RunningTime(m) ==
    Cardinality({ t \in 0..(current_time - 1) :
                    \E s \in Starts :
                        /\ StartOf(s).machine_id = m
                        /\ StartOf(s).time <= t
                        /\ t < StartOf(s).time + StartOf(s).duration })

\* C33: the idle time of a machine never includes time during which it was
\* operating: at the end of every tick, for every machine, idle_time plus
\* the time the machine has spent running processes so far is at most the
\* elapsed simulated time.
C33_IdleTimeExcludesRunningTime ==
    EndOfTick =>
        \A m \in DOMAIN machines : machines[m].idle_time + RunningTime(m) <= current_time

----------------------------------------------------------------------------
(* Properties of dispatch at the end of a tick *)

\* machine m of the bucket is idle and at least staff_required available
\* staff may work on it
CouldStartOn(bucket_id, m) ==
    /\ InBucket(bucket_id, m)
    /\ ~machines[m].is_operating
    /\ Cardinality(AvailableEligible(staff, m)) >= machines[m].machine.staff_required

\* C34: dispatch is work-conserving at tick boundaries: at the end of every
\* tick there is no bucket that has both a queued job and an idle machine
\* for which at least staff_required available, role-eligible staff exist.
C34_WorkConserving ==
    EndOfTick =>
        \A b \in DOMAIN job_queues :
            job_queues[b] # << >> => \A m \in DOMAIN machines : ~CouldStartOn(b, m)

----------------------------------------------------------------------------
(* Properties of the order of equal-time events                            *)
(* The run of the configuration that takes equal-time events in one fixed  *)
(* order is computed from the same operators as the driver; every run of   *)
(* the driver is one tie order, and so is this one.                        *)

\* a number that orders the events of one time: released staff first, then
\* completed processes, by machine, staff member and process
TieKey(e) ==
    (CASE e.kind = "StaffReleased"   -> 0
       [] e.kind = "ProcessComplete" -> 1
       [] OTHER                      -> 2) * 1000000
    + (e.machine_id + 1) * 100000 + (e.staff_id + 1) * 10000 + (e.process_id + 1)

\* the event the fixed tie order takes from the non-empty queue q
FirstInTieOrder(q) ==
    CHOOSE e \in HeapTops(q) : \A x \in HeapTops(q) : TieKey(e) <= TieKey(x)

\* the App of Init and Seed for the loaded configuration
SeededApp ==
    LET A0 == [ production |->
                   [ machines |-> [ m \in DOMAIN cfg.machine_types |->
                                      NewMachineState(cfg.machine_types[m]) ],
                     staff |-> [ i \in 1..Len(cfg.staff) |->
                                   NewStaff(cfg.staff[i].id, cfg.staff[i].role) ],
                     simulator |-> [ current_time |-> 0, event_queue |-> EmptyBag ] ],
                job_queues |-> [ b \in AllBuckets(cfg) |-> << >> ],
                next_pid |-> 0, process_meta |-> << >>, finished_goods |-> 0,
                log |-> << >>, started |-> [ i \in 0..(cfg.items - 1) |-> << >> ],
                finished_log |-> << >>, requeued |-> {} ]
    IN  IF Len(cfg.steps) > 0
        THEN TryStartJobs([ A0 EXCEPT !.job_queues[cfg.steps[1].machine_id] =
                              @ \o [ i \in 1..cfg.items |->
                                       PendingJob(cfg.steps[1].duration, 0, i - 1) ] ],
                          cfg.steps[1].machine_id, 0)
        ELSE A0

\* the drain loop of a tick in the fixed tie order
RECURSIVE DrainInTieOrder(_, _)
DrainInTieOrder(A, target) ==
    LET q == A.production.simulator.event_queue IN
    IF HasEvents(q) /\ FirstInTieOrder(q).time <= target
    THEN LET event == FirstInTieOrder(q) IN
         DrainInTieOrder(
             HandleEvent([ A EXCEPT !.production.simulator.event_queue = HeapRemove(@, event),
                                    !.production.simulator.current_time = event.time,
                                    !.log = << >> ],
                         event),
             target)
    ELSE A

\* one tick in the fixed tie order
TickInTieOrder(A) ==
    LET target == TargetTime(A.production.simulator.current_time,
                             A.production.simulator.event_queue)
    IN  FinishTick(DrainInTieOrder(Rebalance(A, target), target), target)

\* the clock and the finished goods at the end of the first tick after which
\* sim_complete holds, ticks being made as long as the driver makes them
RECURSIVE OutcomeInTieOrder(_)
OutcomeInTieOrder(A) ==
    IF A.production.simulator.current_time >= MaxTime
    THEN [ complete_at |-> NotYet, finished_goods |-> A.finished_goods ]
    ELSE LET A1 == TickInTieOrder([ A EXCEPT !.log = << >> ]) IN
         IF SimComplete(A1)
         THEN [ complete_at |-> A1.production.simulator.current_time,
                finished_goods |-> A1.finished_goods ]
         ELSE OutcomeInTieOrder(A1)

\* C35: the outcome of a run does not depend on the order in which
\* equal-time events are taken from the timeline: for a fixed configuration
\* the finished-goods count and the clock at which completion is reported
\* are the same for every tie order.
C35_TieOrderIndependent ==
    (pc = "idle" /\ complete_at # NotYet /\ complete_at = current_time) =>
        /\ complete_at = OutcomeInTieOrder(SeededApp).complete_at
        /\ finished_goods = OutcomeInTieOrder(SeededApp).finished_goods

----------------------------------------------------------------------------
(* Properties of process ids *)

\* the process ids of the dispatch attempts of the last action
AttemptPids == { log[a[1]][a[2]].pid : a \in Attempts }

\* the dispatch attempts of a step use the process ids from the counter
\* before the step up to the counter after it, each once
FreshPids ==
    /\ next_pid' >= next_pid
    /\ log' # << >> =>
          /\ \A a \in Attempts' : log'[a[1]][a[2]].pid \in next_pid..(next_pid' - 1)
          /\ Cardinality(Attempts') = next_pid' - next_pid
          /\ Cardinality(AttemptPids') = Cardinality(Attempts')

\* the starts recorded and the ProcessComplete events pending carry process
\* ids below the counter, no two of them the same one
DistinctPids ==
    /\ \A s1, s2 \in Starts : StartOf(s1).pid = StartOf(s2).pid => s1 = s2
    /\ \A s \in Starts : StartOf(s).pid < next_pid
    /\ \A e \in BagToSet(event_queue) :
          e.kind = "ProcessComplete" =>
              /\ e.process_id < next_pid
              /\ CopiesIn(e, event_queue) = 1
              /\ \A x \in BagToSet(event_queue) :
                    (x.kind = "ProcessComplete" /\ x.process_id = e.process_id) => x = e

\* C36: process ids are globally unique: every call the dispatcher makes to
\* try_start_process uses a process id no earlier call used, so no two
\* ProcessComplete events scheduled in a run carry the same process id.
C36_ProcessIdsUnique == [][FreshPids]_vars /\ []DistinctPids

\* a start with a process id above the number of starts made before it:
\* failed attempts have used process ids in between
C36_Witness ==
    /\ requeued # {}
    /\ \E s \in Starts : StartOf(s).pid >= 3
    /\ \E e1, e2 \in BagToSet(event_queue) :
          /\ e1.kind = "ProcessComplete" /\ e2.kind = "ProcessComplete"
          /\ e1.process_id # e2.process_id

----------------------------------------------------------------------------
(* Termination of a tick                                                   *)
(* The drain loop is the sequence of DrainEvent steps of a tick.  A number *)
(* that is never negative and that every iteration makes smaller bounds    *)
(* the iterations of every tick.                                           *)

\* the most events handling event e can leave due without starting a job:
\* one StaffUnavailable event per try_start_jobs call the handler makes
EventWeight(e) ==
    CASE e.kind = "ProcessComplete" -> 1 + Len(cfg.bucket_order)
      [] e.kind = "StaffReleased"   -> 2
      [] OTHER                      -> 1

\* the weights of the events of the set S, counted as often as q holds them
RECURSIVE QueueWeight(_, _)
QueueWeight(q, S) ==
    IF S = {} THEN 0
    ELSE LET e == CHOOSE x \in S : TRUE IN
         CopiesIn(e, q) * EventWeight(e) + QueueWeight(q, S \ {e})

\* the weight of the events one start schedules: a StaffReleased event per
\* staff member at most, and one ProcessComplete event
StartWeight == 2 * Len(staff) + 1 + Len(cfg.bucket_order)

\* the starts the run can still make: every step of every item starts once
StartsLeft == cfg.items * Len(cfg.steps) - Cardinality(Starts)

\* the bound on the iterations the drain loop can still make
DrainRank == QueueWeight(event_queue, BagToSet(event_queue)) + StartWeight * StartsLeft

\* every iteration of the drain loop makes the bound smaller
DrainRankDecreases == (pc = "drain" /\ pc' = "drain") => DrainRank' < DrainRank

\* every try_start_jobs call makes at most as many attempts as the queue
\* held jobs: an attempt that is followed by another has taken a job from
\* the queue
DispatchLoopBounded ==
    \A c \in 1..Len(log) :
        log[c] # << >> =>
            /\ Len(log[c]) <= Len(log[c][1].queue_before)
            /\ \A k \in 1..(Len(log[c]) - 1) :
                  /\ Len(log[c][k].queue_after) = Len(log[c][k].queue_before) - 1
                  /\ log[c][k + 1].queue_before = log[c][k].queue_after

\* C37: every tick terminates: the event-drain loop of a tick and every
\* try_start_jobs loop make finitely many iterations, for every
\* configuration, steps of duration 0 and buckets that can never be staffed
\* included.
C37_TickTerminates ==
    /\ [](StartsLeft >= 0 /\ DispatchLoopBounded)
    /\ [][DrainRankDecreases]_vars

\* an iteration of the drain loop has started a step of duration 0, whose
\* events are due in the same loop
C37_Witness ==
    /\ pc = "drain"
    /\ \E a \in Attempts :
          LET at == log[a[1]][a[2]] IN
          /\ at.started
          /\ at.job.duration = 0
          /\ at.job.step_index >= 1
          /\ \E e \in BagToSet(event_queue) :
                /\ e.kind = "ProcessComplete"
                /\ e.process_id = at.pid
                /\ e.time = current_time
                /\ e.time <= target_time

\* a drain loop runs while a job waits for a bucket that no staff member
\* can work on
C37_WitnessUnstaffed ==
    /\ pc = "drain"
    /\ 1 \in DOMAIN job_queues /\ 1 \in DOMAIN machines
    /\ job_queues[1] # << >>
    /\ \A i \in 1..Len(staff) : ~StaffCanWorkOn(staff[i], 1)
    /\ ~machines[1].machine.is_automated /\ machines[1].machine.staff_required = 1
    /\ \E e \in BagToSet(event_queue) : e.kind = "StaffUnavailable" /\ e.time <= target_time
    /\ ticks >= 2

----------------------------------------------------------------------------
(* Properties of handle_event *)

\* the step is the iteration of the drain loop that handles event e
Handles(e) ==
    /\ pc = "drain" /\ pc' = "drain"
    /\ e \in HeapTops(event_queue)
    /\ e.time <= target_time
    /\ event_queue' = HeapRemove(event_queue, e)

\* handling a StaffUnavailable event moves the clock to the event's time
\* and changes nothing else of the App
StaffUnavailableChangesNothing ==
    \A e \in BagToSet(event_queue) :
        (e.kind = "StaffUnavailable" /\ Handles(e)) =>
            /\ current_time' = e.time
            /\ machines' = machines
            /\ staff' = staff
            /\ job_queues' = job_queues
            /\ process_meta' = process_meta
            /\ next_pid' = next_pid
            /\ finished_goods' = finished_goods

\* C38: handling a StaffUnavailable event changes no machine, staff,
\* job-queue, tracked-process or finished-goods state; only the clock moves
\* to the event's time.
C38_StaffUnavailableIsInert == [][StaffUnavailableChangesNothing]_vars

\* the StaffUnavailable event of a failed attempt has been handled by the
\* running tick while a machine is operating, and the clock is at its time
C38_Witness ==
    /\ pc = "drain"
    /\ log = << >>
    /\ current_time < target_time
    /\ \E m \in DOMAIN machines : machines[m].is_operating
    /\ \E r \in requeued :
          /\ machines[r.machine_id].waiting_for = "Staff"
          /\ \A e \in BagToSet(event_queue) : e.kind # "StaffUnavailable"

----------------------------------------------------------------------------
(* Properties of the tracked-process table *)

\* the process ids of the processes in process: started, with the
\* ProcessComplete event still pending
PidsInProcess ==
    { StartOf(s).pid : s \in { x \in Starts :
        BagIn(PCEvent(StartOf(x).time + StartOf(x).duration, StartOf(x).machine_id,
                      StartOf(x).pid), event_queue) } }

\* C39: at the end of every tick process_meta holds exactly one entry per
\* process that is in process and no other entry: a dispatch attempt that
\* failed for lack of staff leaves no entry behind.
C39_ProcessMetaTracksRunning ==
    EndOfTick => DOMAIN process_meta = PidsInProcess

====
